---- MODULE Spec2Model ----
(***************************************************************************)
(* Model of src/widgets/svg.rs: the SVG layer cache (SvgCache), its lazy   *)
(* GPU buffer materialization, and the render pass (Svg::dom).             *)
(***************************************************************************)
EXTENDS Integers, Sequences, FiniteSets, TLC

\* ------------------------------------------------------------------------
\* Bounds of the model
\* ------------------------------------------------------------------------

\* number of SvgLayerIds the global counter may hand out in a run
MaxLayerId == 2

\* longest scene (Svg.layers) handed to one render pass
MaxScene == 2

\* threads calling into one cache
MaxThreads == 2


\* ------------------------------------------------------------------------
\* Option<T>
\* ------------------------------------------------------------------------

None == [some |-> FALSE]

Some(v) == [some |-> TRUE, val |-> v]

IsSome(o) == o.some

\* Result<T, E>
Ok(v) == [ok |-> TRUE, val |-> v]

Err(e) == [ok |-> FALSE, err |-> e]

\* ------------------------------------------------------------------------
\* FastHashMap<K, V> as a function over its key set
\* ------------------------------------------------------------------------

EmptyMap == [x \in {} |-> x]

Keys(m) == DOMAIN m

MapInsert(m, k, v) == [x \in (DOMAIN m) \cup {k} |-> IF x = k THEN v ELSE m[x]]

MapRemove(m, k) == [x \in (DOMAIN m) \ {k} |-> m[x]]

MapGet(m, k) == IF k \in DOMAIN m THEN Some(m[k]) ELSE None

\* ------------------------------------------------------------------------
\* Input universes
\* ------------------------------------------------------------------------

\* every id value a caller may present: the ones the counter can mint
LayerIds == 0 .. (MaxLayerId - 1)

\* ::std::u32::MAX (0xFFFFFFFF), written as the same 32 bits read signed: it is
\* above every index a mesh of the model can hold
GL_RESTART_INDEX == -1

DefaultStrokeOptions ==
    [line_width |-> 1000, miter_limit |-> 4000, tolerance |-> 100]

filled(color) == [stroke |-> None, fill |-> Some(color)]

stroked(color, opts) == [stroke |-> Some(<<color, opts>>), fill |-> None]

DefaultStyle == [stroke |-> None, fill |-> None]

BothStyle ==
    [stroke |-> Some(<<"blue", DefaultStrokeOptions>>), fill |-> Some("red")]

\* SvgLayer::default_from_layer(data, style), callbacks left out
Layer(data, style) ==
    [data |-> data, style |-> style, transform_id |-> None, view_box_id |-> 0]

\* the layers callers hand to add_layer: fill only, stroke only, both
LayerInputs ==
    { Layer(<<"Circle">>, filled("red")),
      Layer(<<"Rect", "Circle">>, stroked("blue", DefaultStrokeOptions)),
      Layer(<<"Circle">>, BothStyle) }

\* the layers added before a render pass
RenderLayerInputs ==
    { Layer(<<"Circle">>, filled("red")),
      Layer(<<"Circle">>, BothStyle) }

\* ------------------------------------------------------------------------
\* Tessellation (lyon is an external collaborator: its output per primitive
\* is a fixed mesh; what this file does with that output is modelled)
\* ------------------------------------------------------------------------

\* DEFAULT_GLYPH_TOLERANCE = 0.01, kept in thousandths
DEFAULT_GLYPH_TOLERANCE == 10

LyonVertex(px, py, nx, ny) == [position |-> <<px, py>>, normal |-> <<nx, ny>>]

\* vertices the lyon fill tessellator emits for a primitive
LyonFillVertices(prim) ==
    IF prim = "Circle"
    THEN << LyonVertex(6, 5, 1, 0), LyonVertex(5, 6, 0, 1), LyonVertex(4, 5, -1, 0) >>
    ELSE IF prim = "Polygon"
    THEN << LyonVertex(0, 0, -1, 0), LyonVertex(4, 0, 1, 0), LyonVertex(2, 7, 0, 1) >>
    ELSE << LyonVertex(0, 0, -1, -1), LyonVertex(2, 0, 1, -1),
            LyonVertex(2, 3, 1, 1), LyonVertex(0, 3, -1, 1) >>

LyonFillIndices(prim) ==
    IF prim \in {"Circle", "Polygon"} THEN <<0, 1, 2>> ELSE <<0, 1, 2, 0, 2, 3>>

\* vertices the lyon stroke tessellator emits: the outline pushed out by the
\* line width along the normal
LyonStrokeVertices(prim, stroke_options) ==
    [i \in 1 .. Len(LyonFillVertices(prim)) |->
        LyonVertex(LyonFillVertices(prim)[i].position[1]
                     + (stroke_options.line_width \div 1000)
                       * LyonFillVertices(prim)[i].normal[1],
                   LyonFillVertices(prim)[i].position[2]
                     + (stroke_options.line_width \div 1000)
                       * LyonFillVertices(prim)[i].normal[2],
                   LyonFillVertices(prim)[i].normal[1],
                   LyonFillVertices(prim)[i].normal[2])]

LyonStrokeIndices(prim) == LyonFillIndices(prim)

\* the closure handed to BuffersBuilder
ToSvgVert(vertex) ==
    [xy |-> <<vertex.position[1], vertex.position[2]>>,
     normal |-> <<vertex.normal[1], vertex.position[2]>>]

\* BuffersBuilder::new(&mut geometry, closure): every emitted vertex goes
\* through the closure
VertexBuffers(lyon_vertices, lyon_indices) ==
    [vertices |-> [i \in 1 .. Len(lyon_vertices) |-> ToSvgVert(lyon_vertices[i])],
     indices  |-> lyon_indices]

\* FillTessellator::tessellate_path: Err for a polygon whose events make no
\* path the tessellator accepts; fill_circle and fill_rounded_rectangle
\* return nothing that is unwrapped
tessellate_path(prim) ==
    IF prim = "MalformedPolygon" THEN Err("FillError") ELSE Ok(prim)

\* tessellate_path(..).unwrap() of SvgLayerType::tesselate panics
TesselatePanics(prim) == ~tessellate_path(prim).ok

\* `for layer in layer_data.get()` reaches a primitive whose tesselate
\* panics: tesselate_layer_data never returns
TesselateLayerDataPanics(layer_data) ==
    \E i \in 1 .. Len(layer_data) : TesselatePanics(layer_data[i])

\* SvgLayerType::tesselate: (geometry, Some(stroke_geometry) iff stroke given)
tesselate(prim, tolerance, stroke) ==
    IF IsSome(stroke)
    THEN << VertexBuffers(LyonFillVertices(prim), LyonFillIndices(prim)),
            Some(VertexBuffers(LyonStrokeVertices(prim, stroke.val),
                               LyonStrokeIndices(prim))) >>
    ELSE << VertexBuffers(LyonFillVertices(prim), LyonFillIndices(prim)), None >>

\* the loop body of tesselate_layer_data for one primitive `layer`:
\* acc = [vertex_buf, index_buf, last_index, stroke_vertex_buf,
\*        stroke_index_buf, last_stroke_index]; first the fill half
JoinFill(acc, g) ==
    [acc EXCEPT
        !.vertex_buf = @ \o g.vertices,
        !.index_buf  = (@ \o [i \in 1 .. Len(g.indices) |->
                                g.indices[i] + acc.last_index])
                       \o <<GL_RESTART_INDEX>>,
        !.last_index = @ + Len(g.vertices)]

\* the `if let Some(..) = stroke_vertices` half of the loop body
JoinStroke(acc, stroke_vertices) ==
    IF IsSome(stroke_vertices)
    THEN [acc EXCEPT
            !.stroke_vertex_buf = @ \o stroke_vertices.val.vertices,
            !.stroke_index_buf  =
                (@ \o [i \in 1 .. Len(stroke_vertices.val.indices) |->
                         stroke_vertices.val.indices[i] + acc.last_stroke_index])
                \o <<GL_RESTART_INDEX>>,
            !.last_stroke_index = @ + Len(stroke_vertices.val.vertices)]
    ELSE acc

\* the loop body given what layer.tesselate(..) returned
JoinTesselated(acc, t) == JoinStroke(JoinFill(acc, t[1]), t[2])

TesselateStep(acc, layer, tolerance, stroke_options) ==
    JoinTesselated(acc, tesselate(layer, tolerance, stroke_options))

\* `for layer in layer_data.get()` over the first n primitives
RECURSIVE TesselateLoop(_, _, _, _)
TesselateLoop(layer_data, n, tolerance, stroke_options) ==
    IF n = 0
    THEN [vertex_buf |-> << >>, index_buf |-> << >>, last_index |-> 0,
          stroke_vertex_buf |-> << >>, stroke_index_buf |-> << >>,
          last_stroke_index |-> 0]
    ELSE TesselateStep(TesselateLoop(layer_data, n - 1, tolerance, stroke_options),
                       layer_data[n], tolerance, stroke_options)

\* a return that hands back the stroke buffers whether or not a stroke was
\* requested
TesselateResult_always_stroke(acc, stroke_options) ==
    << <<acc.vertex_buf, acc.index_buf>>,
       Some(<<acc.stroke_vertex_buf, acc.stroke_index_buf>>) >>

\* the return of tesselate_layer_data: ((vertex_buf, index_buf),
\* Option<(stroke bufs)>)
TesselateResult(acc, stroke_options) ==
    IF IsSome(stroke_options)
    THEN << <<acc.vertex_buf, acc.index_buf>>,
            Some(<<acc.stroke_vertex_buf, acc.stroke_index_buf>>) >>
    ELSE << <<acc.vertex_buf, acc.index_buf>>, None >>

tesselate_layer_data(layer_data, tolerance, stroke_options) ==
    TesselateResult(
        TesselateLoop(layer_data, Len(layer_data), tolerance, stroke_options),
        stroke_options)

\* number of meshes handed to join_vertex_buffers, and of primitives in one
\* layer handed to the quick_* helpers
MaxMeshes == 3

\* the loop body of join_vertex_buffers that copies the indices as they are
JoinVertexBuffersStep_no_rebase(acc, vertex_buffer) ==
    [vertex_buf |-> acc.vertex_buf \o vertex_buffer.vertices,
     index_buf  |-> (acc.index_buf \o vertex_buffer.indices)
                    \o <<GL_RESTART_INDEX>>,
     last_index |-> acc.last_index + Len(vertex_buffer.vertices)]

\* the loop body of join_vertex_buffers that pushes no restart index
JoinVertexBuffersStep_no_restart(acc, vertex_buffer) ==
    [vertex_buf |-> acc.vertex_buf \o vertex_buffer.vertices,
     index_buf  |-> acc.index_buf
                    \o [i \in 1 .. Len(vertex_buffer.indices) |->
                          vertex_buffer.indices[i] + acc.last_index],
     last_index |-> acc.last_index + Len(vertex_buffer.vertices)]

\* the loop body of join_vertex_buffers for one mesh of `input`
JoinVertexBuffersStep(acc, vertex_buffer) ==
    [vertex_buf |-> acc.vertex_buf \o vertex_buffer.vertices,
     index_buf  |-> (acc.index_buf
                     \o [i \in 1 .. Len(vertex_buffer.indices) |->
                           vertex_buffer.indices[i] + acc.last_index])
                    \o <<GL_RESTART_INDEX>>,
     last_index |-> acc.last_index + Len(vertex_buffer.vertices)]

\* `for VertexBuffers { vertices, indices } in input` over the first n meshes
RECURSIVE JoinVertexBuffersLoop(_, _)
JoinVertexBuffersLoop(input, n) ==
    IF n = 0
    THEN [vertex_buf |-> << >>, index_buf |-> << >>, last_index |-> 0]
    ELSE JoinVertexBuffersStep(JoinVertexBuffersLoop(input, n - 1), input[n])

VerticesIndicesBuffer(vertices, indices) ==
    [vertices |-> vertices, indices |-> indices]

JoinVertexBuffersResult(acc) ==
    VerticesIndicesBuffer(acc.vertex_buf, acc.index_buf)

join_vertex_buffers(input) ==
    JoinVertexBuffersResult(JoinVertexBuffersLoop(input, Len(input)))

\* the meshes callers hand to join_vertex_buffers: a glyph without outline
\* (no vertices), a triangle, a quad
MeshInputs ==
    { VertexBuffers(<< >>, << >>),
      VertexBuffers(LyonFillVertices("Circle"), LyonFillIndices("Circle")),
      VertexBuffers(LyonFillVertices("Rect"), LyonFillIndices("Rect")) }

\* ------------------------------------------------------------------------
\* State
\* ------------------------------------------------------------------------

VARIABLES
    SVG_LAYER_ID,   \* static AtomicUsize: next SvgLayerId
    SVG_TRANSFORM_ID,  \* static AtomicUsize: next SvgTransformId
    SVG_VIEW_BOX_ID,   \* static AtomicUsize: next SvgViewBoxId
    svg_cache,      \* the SvgCache: one field per struct field
    gpu_allocs,     \* per map and id: buffer pairs created so far (GPU context)
    removed,        \* ids that were in `layers` and were deleted or cleared
    minted,         \* the ids add_layer returned, in allocation order
    panicked,       \* an unwrap() failed or the stack ran out: the thread is gone
    ret,            \* the last call: [op, arg, val, allocated]
    shader_lock,    \* the Mutex around `shader`: the thread holding the guard
    gl_programs,    \* programs SvgShader::new linked so far (GPU context)
    pc,             \* per thread: where it is inside init_shader or an accessor
    vectorized_fonts,  \* the VectorizedFontCache: FontId -> VectorizedFont
    tesselated,     \* glyph outlines the last font call handed to the tessellator
    borrowed        \* the &'a (VertexBuffer, IndexBuffer) a caller still holds

vars ==
    <<SVG_LAYER_ID, SVG_TRANSFORM_ID, SVG_VIEW_BOX_ID, svg_cache, gpu_allocs,
      removed, minted, panicked, ret, shader_lock, gl_programs, pc,
      vectorized_fonts, tesselated, borrowed>>

\* impl Default for SvgCache
SvgCacheDefault ==
    [layers |-> EmptyMap,
     gpu_ready_to_upload_cache |-> EmptyMap,
     stroke_gpu_ready_to_upload_cache |-> EmptyMap,
     vertex_index_buffer_cache |-> EmptyMap,
     stroke_vertex_index_buffer_cache |-> EmptyMap,
     shader |-> None,
     transforms |-> EmptyMap,
     view_boxes |-> EmptyMap]

\* the GPU context handed to the accessors: whether it can still allocate,
\* and how many buffer pairs it created before for the requested key
Window(alloc_ok, created) == [alloc_ok |-> alloc_ok, created |-> created]

\* ------------------------------------------------------------------------
\* SvgCache methods as functions of the cache value
\* ------------------------------------------------------------------------

\* new_svg_layer_id that reads the counter without advancing it (load, not
\* fetch_add)
new_svg_layer_id_load_only(counter) == [id |-> counter, counter |-> counter]

\* new_svg_layer_id that hands out the same id again and again
new_svg_layer_id_recycles(counter) == [id |-> 0, counter |-> counter + 1]

\* new_svg_layer_id: SVG_LAYER_ID.fetch_add(1) -> (id, counter afterwards)
new_svg_layer_id(counter) == [id |-> counter, counter |-> counter + 1]

\* fill_vertex_buffer_cache without the Occupied arm: buffers are created and
\* inserted on every call that finds a CPU mesh
fill_vertex_buffer_cache_always_uploads(id, rmut, rnotmut, window) ==
    IF ~IsSome(MapGet(rnotmut, id))
    THEN [rmut |-> rmut, result |-> MapGet(rmut, id),
          panicked |-> FALSE, allocated |-> FALSE]
    ELSE IF ~window.alloc_ok
    THEN [rmut |-> rmut, result |-> None,
          panicked |-> TRUE, allocated |-> FALSE]
    ELSE [rmut |-> MapInsert(rmut, id,
                      << [data |-> rnotmut[id][1], gen |-> window.created],
                         [data |-> rnotmut[id][2], gen |-> window.created] >>),
          result |-> Some(<< [data |-> rnotmut[id][1], gen |-> window.created],
                             [data |-> rnotmut[id][2], gen |-> window.created] >>),
          panicked |-> FALSE, allocated |-> TRUE]

\* fill_vertex_buffer_cache with `.ok()?` in place of the two unwrap()s: a
\* failed allocation is answered like an id that is not found
fill_vertex_buffer_cache_quiet_on_failure(id, rmut, rnotmut, window) ==
    IF id \in Keys(rmut)
    THEN [rmut |-> rmut, result |-> MapGet(rmut, id),
          panicked |-> FALSE, allocated |-> FALSE]
    ELSE IF ~IsSome(MapGet(rnotmut, id)) \/ ~window.alloc_ok
    THEN [rmut |-> rmut, result |-> None,
          panicked |-> FALSE, allocated |-> FALSE]
    ELSE [rmut |-> MapInsert(rmut, id,
                      << [data |-> rnotmut[id][1], gen |-> window.created],
                         [data |-> rnotmut[id][2], gen |-> window.created] >>),
          result |-> Some(<< [data |-> rnotmut[id][1], gen |-> window.created],
                             [data |-> rnotmut[id][2], gen |-> window.created] >>),
          panicked |-> FALSE, allocated |-> TRUE]

\* fill_vertex_buffer_cache: [rmut, result, panicked, allocated]
fill_vertex_buffer_cache(id, rmut, rnotmut, window) ==
    IF id \in Keys(rmut)
    THEN \* Occupied(_) => { }
         [rmut |-> rmut, result |-> MapGet(rmut, id),
          panicked |-> FALSE, allocated |-> FALSE]
    ELSE IF ~IsSome(MapGet(rnotmut, id))
    THEN \* None => return None
         [rmut |-> rmut, result |-> None,
          panicked |-> FALSE, allocated |-> FALSE]
    ELSE IF ~window.alloc_ok
    THEN \* VertexBuffer::new(..).unwrap() / IndexBuffer::new(..).unwrap()
         [rmut |-> rmut, result |-> None,
          panicked |-> TRUE, allocated |-> FALSE]
    ELSE LET vbuf == rnotmut[id][1]
             ibuf == rnotmut[id][2]
             vertex_buffer == [data |-> vbuf, gen |-> window.created]
             index_buffer  == [data |-> ibuf, gen |-> window.created]
             inserted == MapInsert(rmut, id, <<vertex_buffer, index_buffer>>)
         IN  [rmut |-> inserted, result |-> MapGet(inserted, id),
              panicked |-> FALSE, allocated |-> TRUE]

\* get_vertices_and_indices: [cache, result, panicked, allocated]; r is what
\* fill_vertex_buffer_cache returned for the fill maps
FillAccess(c, r) ==
    [cache |-> [c EXCEPT !.vertex_index_buffer_cache = r.rmut],
     result |-> r.result, panicked |-> r.panicked, allocated |-> r.allocated]

get_vertices_and_indices(c, window, id) ==
    FillAccess(c, fill_vertex_buffer_cache(id, c.vertex_index_buffer_cache,
                                           c.gpu_ready_to_upload_cache, window))

\* the stroke accessor taking rmut from vertex_index_buffer_cache
StrokeAccess_into_fill_buffers(c, r) ==
    [cache |-> [c EXCEPT !.vertex_index_buffer_cache = r.rmut],
     result |-> r.result, panicked |-> r.panicked, allocated |-> r.allocated]

\* get_stroke_vertices_and_indices: the same over the stroke maps
StrokeAccess(c, r) ==
    [cache |-> [c EXCEPT !.stroke_vertex_index_buffer_cache = r.rmut],
     result |-> r.result, panicked |-> r.panicked, allocated |-> r.allocated]

\* get_stroke_vertices_and_indices reading the fill meshes (rnotmut copied
\* from get_vertices_and_indices)
get_stroke_vertices_and_indices_from_fill_meshes(c, window, id) ==
    StrokeAccess(c, fill_vertex_buffer_cache(id, c.stroke_vertex_index_buffer_cache,
                                             c.gpu_ready_to_upload_cache, window))

get_stroke_vertices_and_indices(c, window, id) ==
    StrokeAccess(c, fill_vertex_buffer_cache(id, c.stroke_vertex_index_buffer_cache,
                                             c.stroke_gpu_ready_to_upload_cache,
                                             window))

\* get_style without the unwrap(): an absent id is answered with None
get_style_not_found(c, id) ==
    IF id \in Keys(c.layers)
    THEN [result |-> Some(c.layers[id].style), panicked |-> FALSE]
    ELSE [result |-> None, panicked |-> FALSE]

\* get_style: self.layers.get(id).as_ref().unwrap().style
get_style(c, id) ==
    IF id \in Keys(c.layers)
    THEN [result |-> Some(c.layers[id].style), panicked |-> FALSE]
    ELSE [result |-> None, panicked |-> TRUE]

\* layer.style.stroke.and_then(|s| Some(s.1.clone()))
StrokeOptionsOf(style) ==
    IF IsSome(style.stroke) THEN Some(style.stroke.val[2]) ELSE None

\* the three inserts, the layer stored with SvgStyle::default()
StoreLayer_default_style(c, new_svg_id, layer, fill_bufs, opt_stroke) ==
    [c EXCEPT
        !.gpu_ready_to_upload_cache = MapInsert(@, new_svg_id, fill_bufs),
        !.stroke_gpu_ready_to_upload_cache =
            IF IsSome(opt_stroke) THEN MapInsert(@, new_svg_id, opt_stroke.val) ELSE @,
        !.layers = MapInsert(@, new_svg_id, [layer EXCEPT !.style = DefaultStyle])]

\* add_layer with the id already drawn from the counter: the three inserts
StoreLayer(c, new_svg_id, layer, fill_bufs, opt_stroke) ==
    [c EXCEPT
        !.gpu_ready_to_upload_cache = MapInsert(@, new_svg_id, fill_bufs),
        !.stroke_gpu_ready_to_upload_cache =
            IF IsSome(opt_stroke) THEN MapInsert(@, new_svg_id, opt_stroke.val) ELSE @,
        !.layers = MapInsert(@, new_svg_id, layer)]

\* the inserts given what tesselate_layer_data returned
StoreTesselated(c, new_svg_id, layer, t) == StoreLayer(c, new_svg_id, layer, t[1], t[2])

\* add_layer that uploads the fill mesh right away
add_layer_uploads(c, new_svg_id, layer) ==
    get_vertices_and_indices(
        StoreTesselated(c, new_svg_id, layer,
            tesselate_layer_data(layer.data, DEFAULT_GLYPH_TOLERANCE,
                                 StrokeOptionsOf(layer.style))),
        Window(TRUE, 0), new_svg_id).cache

add_layer(c, new_svg_id, layer) ==
    StoreTesselated(c, new_svg_id, layer,
        tesselate_layer_data(layer.data, DEFAULT_GLYPH_TOLERANCE,
                             StrokeOptionsOf(layer.style)))

\* delete_layer that forgets the CPU fill mesh
delete_layer_keeps_fill_mesh(c, svg_id) ==
    [c EXCEPT !.layers = MapRemove(@, svg_id),
              !.stroke_gpu_ready_to_upload_cache = MapRemove(@, svg_id),
              !.vertex_index_buffer_cache = MapRemove(@, svg_id),
              !.stroke_vertex_index_buffer_cache = MapRemove(@, svg_id)]

\* delete_layer that forgets the CPU stroke mesh
delete_layer_keeps_stroke_mesh(c, svg_id) ==
    [c EXCEPT !.layers = MapRemove(@, svg_id),
              !.gpu_ready_to_upload_cache = MapRemove(@, svg_id),
              !.vertex_index_buffer_cache = MapRemove(@, svg_id),
              !.stroke_vertex_index_buffer_cache = MapRemove(@, svg_id)]

\* delete_layer that forgets the GPU stroke buffers
delete_layer_keeps_stroke_buffers(c, svg_id) ==
    [c EXCEPT !.layers = MapRemove(@, svg_id),
              !.gpu_ready_to_upload_cache = MapRemove(@, svg_id),
              !.stroke_gpu_ready_to_upload_cache = MapRemove(@, svg_id),
              !.vertex_index_buffer_cache = MapRemove(@, svg_id)]

\* delete_layer that drops every GPU fill buffer instead of one
delete_layer_drops_all_fill_buffers(c, svg_id) ==
    [c EXCEPT !.layers = MapRemove(@, svg_id),
              !.gpu_ready_to_upload_cache = MapRemove(@, svg_id),
              !.stroke_gpu_ready_to_upload_cache = MapRemove(@, svg_id),
              !.vertex_index_buffer_cache = EmptyMap,
              !.stroke_vertex_index_buffer_cache = MapRemove(@, svg_id)]

\* delete_layer
\* delete_layer that also drops the transform the layer refers to
delete_layer_drops_transform(c, svg_id) ==
    [c EXCEPT
        !.layers = MapRemove(@, svg_id),
        !.gpu_ready_to_upload_cache = MapRemove(@, svg_id),
        !.stroke_gpu_ready_to_upload_cache = MapRemove(@, svg_id),
        !.vertex_index_buffer_cache = MapRemove(@, svg_id),
        !.stroke_vertex_index_buffer_cache = MapRemove(@, svg_id),
        !.transforms =
            IF svg_id \in Keys(c.layers) /\ IsSome(c.layers[svg_id].transform_id)
            THEN MapRemove(@, c.layers[svg_id].transform_id.val)
            ELSE @]

delete_layer(c, svg_id) ==
    [c EXCEPT !.layers = MapRemove(@, svg_id),
              !.gpu_ready_to_upload_cache = MapRemove(@, svg_id),
              !.stroke_gpu_ready_to_upload_cache = MapRemove(@, svg_id),
              !.vertex_index_buffer_cache = MapRemove(@, svg_id),
              !.stroke_vertex_index_buffer_cache = MapRemove(@, svg_id)]

\* clear_all_layers without the stroke_rmut.clear()
clear_all_layers_keeps_stroke_buffers(c) ==
    [c EXCEPT !.layers = EmptyMap,
              !.gpu_ready_to_upload_cache = EmptyMap,
              !.stroke_gpu_ready_to_upload_cache = EmptyMap,
              !.vertex_index_buffer_cache = EmptyMap]

\* clear_all_layers
clear_all_layers(c) ==
    [c EXCEPT !.layers = EmptyMap,
              !.gpu_ready_to_upload_cache = EmptyMap,
              !.stroke_gpu_ready_to_upload_cache = EmptyMap,
              !.vertex_index_buffer_cache = EmptyMap,
              !.stroke_vertex_index_buffer_cache = EmptyMap]

\* add_transforms through entry(k).or_insert(v): present ids keep their
\* transform
add_transforms_keeps_existing(c, transforms) ==
    [c EXCEPT !.transforms =
        [k \in Keys(@) \cup Keys(transforms) |->
            IF k \in Keys(@) THEN @[k] ELSE transforms[k]]]

\* add_transforms: every (k, v) of the batch is inserted
add_transforms(c, transforms) ==
    [c EXCEPT !.transforms =
        [k \in Keys(@) \cup Keys(transforms) |->
            IF k \in Keys(transforms) THEN transforms[k] ELSE @[k]]]

\* ------------------------------------------------------------------------
\* add_svg and the decoder glue (svg_to_lyon::parse_from)
\* ------------------------------------------------------------------------

\* decoded <path> nodes (resvg is an external collaborator): fill paint,
\* stroke paint with its width in 1/10000, and the node's transform
PathNodes ==
    { [fill |-> Some("red"), stroke |-> None, transform |-> "Ta"],
      [fill |-> None, stroke |-> Some([color |-> "blue", width |-> 15004]),
       transform |-> "Tb"] }

\* ids and values of the transform batches a caller hands to add_transforms
TransformIds == 0 .. (MaxLayerId - 1)

Transforms == {"Ta", "Tc"}

TransformBatches == UNION { [ks -> Transforms] : ks \in SUBSET TransformIds }

\* documents handed to add_svg: well-formed or not, with their path nodes
Docs ==
    [ok : BOOLEAN, view_box : {"VB"},
     paths : UNION { [1 .. n -> PathNodes] : n \in 1 .. MaxLayerId }]

\* convert_stroke: ((s.width as f32) * 1000.0) as usize truncates
convert_stroke(s) ==
    <<s.color, [DefaultStrokeOptions EXCEPT !.line_width = s.width \div 10]>>

\* impl Into<StrokeOptions> for SvgStrokeOptions: every stored field is
\* divided by 1000.0; the floats are kept in ten-thousandths, as s.width is
into_stroke_options(self) ==
    [tolerance   |-> self.tolerance * 10,
     line_width  |-> self.line_width * 10,
     miter_limit |-> self.miter_limit * 10]

\* the style parse_from builds for one path node
PathStyle(p) ==
    [stroke |-> IF IsSome(p.stroke) THEN Some(convert_stroke(p.stroke.val)) ELSE None,
     fill   |-> p.fill]

\* what parse_from leaves behind when Tree::from_str(..).unwrap() panics:
\* nothing was touched yet
ParsePanicked(view_boxes, transform_counter, view_box_counter) ==
    [panicked |-> TRUE,
     layers |-> << >>,
     transforms |-> EmptyMap,
     view_boxes |-> view_boxes,
     transform_counter |-> transform_counter,
     view_box_counter |-> view_box_counter]

\* parse_from that registers the view box before the source is parsed
parse_from_view_box_first(doc, view_boxes, transform_counter, view_box_counter) ==
    IF ~doc.ok
    THEN ParsePanicked(MapInsert(view_boxes, view_box_counter, doc.view_box),
                       transform_counter, view_box_counter + 1)
    ELSE [panicked |-> FALSE,
          layers |-> [i \in 1 .. Len(doc.paths) |->
                         [data |-> <<"Polygon">>,
                          style |-> PathStyle(doc.paths[i]),
                          transform_id |-> Some(transform_counter + i - 1),
                          view_box_id |-> view_box_counter]],
          transforms |-> [k \in transform_counter ..
                                   (transform_counter + Len(doc.paths) - 1) |->
                             doc.paths[1].transform],
          view_boxes |-> MapInsert(view_boxes, view_box_counter, doc.view_box),
          transform_counter |-> transform_counter + Len(doc.paths),
          view_box_counter |-> view_box_counter + 1]

\* parse_from: Tree::from_str(..).unwrap() first; then the layers in document
\* order and the transform table; path i gets transform id (counter + i - 1)
\* and every path the transform of the first path node
parse_from(doc, view_boxes, transform_counter, view_box_counter) ==
    IF ~doc.ok
    THEN ParsePanicked(view_boxes, transform_counter, view_box_counter)
    ELSE
    LET n == Len(doc.paths)
        view_box_id == view_box_counter
        layer_data ==
            [i \in 1 .. n |->
                [data |-> <<"Polygon">>,
                 style |-> PathStyle(doc.paths[i]),
                 transform_id |-> Some(transform_counter + i - 1),
                 view_box_id |-> view_box_id]]
        transforms ==
            [k \in transform_counter .. (transform_counter + n - 1) |->
                doc.paths[1].transform]
    IN  [panicked |-> FALSE,
         layers |-> layer_data,
         transforms |-> transforms,
         view_boxes |-> MapInsert(view_boxes, view_box_id, doc.view_box),
         transform_counter |-> transform_counter + n,
         view_box_counter |-> view_box_counter + 1]

\* the closure collecting the ids back to front
AddLayerStep_prepends(acc, layer) ==
    LET new == new_svg_layer_id(acc.counter)
    IN  [cache |-> add_layer(acc.cache, new.id, layer),
         counter |-> new.counter,
         ids |-> <<new.id>> \o acc.ids]

\* |layer| self.add_layer(layer) with the ids collected so far:
\* acc = [cache, counter, ids]
AddLayerStep(acc, layer) ==
    LET new == new_svg_layer_id(acc.counter)
    IN  [cache |-> add_layer(acc.cache, new.id, layer),
         counter |-> new.counter,
         ids |-> Append(acc.ids, new.id)]

\* layers.into_iter().map(|layer| self.add_layer(layer)).collect() over the
\* first n layers
RECURSIVE AddLayers(_, _, _, _)
AddLayers(c, counter, layer_seq, n) ==
    IF n = 0
    THEN [cache |-> c, counter |-> counter, ids |-> << >>]
    ELSE AddLayerStep(AddLayers(c, counter, layer_seq, n - 1), layer_seq[n])

\* what add_svg hands back: added = [cache, counter, ids] after the layers
\* went in, parsed = what parse_from returned
AddSvgResult(added, parsed) ==
    [cache |-> added.cache, ids |-> added.ids,
     layer_counter |-> added.counter,
     transform_counter |-> parsed.transform_counter,
     view_box_counter |-> parsed.view_box_counter,
     panicked |-> parsed.panicked]

\* add_svg after parse_from returned; view_boxes was passed as &mut, so what
\* parse_from did to it stays whether or not it panicked
AddSvgParsed(c, layer_counter, parsed) ==
    IF parsed.panicked
    THEN AddSvgResult([cache |-> [c EXCEPT !.view_boxes = parsed.view_boxes],
                       counter |-> layer_counter, ids |-> << >>], parsed)
    ELSE AddSvgResult(
             AddLayers(add_transforms([c EXCEPT !.view_boxes = parsed.view_boxes],
                                      parsed.transforms),
                       layer_counter, parsed.layers, Len(parsed.layers)),
             parsed)

\* add_svg
add_svg(c, layer_counter, transform_counter, view_box_counter, doc) ==
    AddSvgParsed(c, layer_counter,
                 parse_from(doc, c.view_boxes, transform_counter, view_box_counter))

\* ------------------------------------------------------------------------
\* Svg::dom, the render pass
\* ------------------------------------------------------------------------

Reference(id) ==
    [kind |-> "Reference", id |-> id, style |-> DefaultStyle,
     fill |-> None, stroke |-> None]

Direct(style, fill, stroke) ==
    [kind |-> "Direct", id |-> 0, style |-> style, fill |-> fill, stroke |-> stroke]

\* quick_circle(circle, color): a Direct layer with a fill mesh only
quick_circle(fill_color) ==
    LET t == tesselate_layer_data(<<"Circle">>, DEFAULT_GLYPH_TOLERANCE, None)
    IN  Direct(filled(fill_color),
               Some([vertices |-> t[1][1], indices |-> t[1][2]]), None)

\* the circles callers hand to quick_circles
MaxRadius == 2

CircleInputs ==
    { [center_x |-> 0, center_y |-> 0, radius |-> r] : r \in 1 .. MaxRadius }

\* a returned layer that carries no fill mesh when there is nothing to draw
QuickCirclesLayer_no_mesh_when_empty(fill, fill_color) ==
    Direct(filled(fill_color),
           IF fill[1] = << >> THEN None
           ELSE Some(VerticesIndicesBuffer(fill[1], fill[2])),
           None)

\* the SvgLayerResource::Direct quick_circles returns for the joined `fill`
QuickCirclesLayer(fill, fill_color) ==
    Direct(filled(fill_color),
           Some(VerticesIndicesBuffer(fill[1], fill[2])),
           None)

\* quick_circles(circles, fill_color): every circle becomes one
\* SvgLayerType::Circle primitive of a single layer, tessellated without
\* stroke
quick_circles(circles, fill_color) ==
    QuickCirclesLayer(
        tesselate_layer_data([i \in 1 .. Len(circles) |-> "Circle"],
                             DEFAULT_GLYPH_TOLERANCE, None)[1],
        fill_color)

\* points per line handed to quick_lines
MaxPoints == 3

\* the lines callers hand to quick_lines: no point, one point, a segment,
\* a polyline
LineInputs == { [i \in 1 .. n |-> <<i, i * i>>] : n \in 0 .. MaxPoints }

\* stroke_options.unwrap_or_default()
unwrap_or_default(stroke_options) ==
    IF IsSome(stroke_options) THEN stroke_options.val ELSE DefaultStrokeOptions

\* lines.iter().filter(|line| line.len() > 2).map(..).collect(): the lines
\* kept, each as one SvgLayerType::Polygon(MoveTo, LineTo, ..) primitive
LinePolygons(lines) ==
    [i \in 1 .. Len(SelectSeq(lines, LAMBDA line : Len(line) > 2)) |-> "Polygon"]

\* the SvgLayerResource::Direct quick_lines returns; `stroke` is the second
\* component of what tesselate_layer_data returned, unwrapped
QuickLinesLayer(stroke, stroke_color, stroke_options) ==
    Direct(stroked(stroke_color, stroke_options),
           None,
           Some(VerticesIndicesBuffer(stroke.val[1], stroke.val[2])))

quick_lines(lines, stroke_color, stroke_options) ==
    QuickLinesLayer(
        tesselate_layer_data(LinePolygons(lines), DEFAULT_GLYPH_TOLERANCE,
                             Some(unwrap_or_default(stroke_options)))[2],
        stroke_color,
        unwrap_or_default(stroke_options))

\* the layer resources a scene may list
SceneLayers == { Reference(id) : id \in LayerIds } \cup { quick_circle("green") }

Scenes == UNION { [1 .. n -> SceneLayers] : n \in 0 .. MaxScene }

\* self.shader.lock() with the lock handed out whether or not it is held
MutexFree_unguarded(mutex) == TRUE

\* self.shader.lock() returns once no other thread holds the guard
MutexFree(mutex) == ~IsSome(mutex)

\* shader_lock.is_none()
shader_is_none(c) == ~IsSome(c.shader)

\* *shader_lock = Some(SvgShader::new(display)); display names the program
\* by the number of programs it linked before
SvgShaderNew(c, display) == [c EXCEPT !.shader = Some(display)]

\* init_shader, the body under the lock: compile only if the cell is empty
init_shader(c, display) ==
    IF shader_is_none(c) THEN SvgShaderNew(c, display) ELSE c

\* buffers of a Direct mesh: created for this draw only, never cached
DirectBuffers(f) ==
    << [data |-> f.vertices, gen |-> -1], [data |-> f.indices, gen |-> -1] >>

\* one fill or stroke draw of layer i: st = [cache, allocs, draws, panicked]
DrawStep(st, i, layer, which, color, alloc_ok) ==
    IF layer.kind = "Reference"
    THEN LET window == Window(alloc_ok, st.allocs[which][layer.id])
             r == IF which = "fill"
                  THEN get_vertices_and_indices(st.cache, window, layer.id)
                  ELSE get_stroke_vertices_and_indices(st.cache, window, layer.id)
         IN  [cache |-> r.cache,
              allocs |-> IF r.allocated
                         THEN [st.allocs EXCEPT ![which][layer.id] = @ + 1]
                         ELSE st.allocs,
              draws |-> IF IsSome(r.result)
                        THEN Append(st.draws, [layer |-> i, kind |-> which,
                                               color |-> color,
                                               buffers |-> r.result.val])
                        ELSE st.draws,
              panicked |-> r.panicked]
    ELSE LET mesh == IF which = "fill" THEN layer.fill ELSE layer.stroke
         IN  IF ~IsSome(mesh)
             THEN st
             ELSE IF ~alloc_ok
             THEN [st EXCEPT !.panicked = TRUE]
             ELSE [st EXCEPT !.draws =
                      Append(@, [layer |-> i, kind |-> which, color |-> color,
                                 buffers |-> DirectBuffers(mesh.val)])]

\* the body of `for layer in &self.layers` for layer i
DomLayer(st, i, layer, alloc_ok) ==
    IF st.panicked
    THEN st
    ELSE LET sty == IF layer.kind = "Reference"
                    THEN get_style(st.cache, layer.id)
                    ELSE [result |-> Some(layer.style), panicked |-> FALSE]
         IN  IF sty.panicked
             THEN [st EXCEPT !.panicked = TRUE]
             ELSE LET style == sty.result.val
                      afterFill ==
                          IF IsSome(style.fill)
                          THEN DrawStep(st, i, layer, "fill", style.fill.val, alloc_ok)
                          ELSE st
                  IN  IF afterFill.panicked
                      THEN afterFill
                      ELSE IF IsSome(style.stroke)
                      THEN DrawStep(afterFill, i, layer, "stroke",
                                    style.stroke.val[1], alloc_ok)
                      ELSE afterFill

\* the render loop over the first n layers of the scene
RECURSIVE DomLoop(_, _, _, _)
\* a pass that walks the layer list from its end
RECURSIVE DomLoop_back_to_front(_, _, _, _)
DomLoop_back_to_front(st, scene, n, alloc_ok) ==
    IF n = 0
    THEN st
    ELSE DomLoop_back_to_front(DomLayer(st, n, scene[n], alloc_ok),
                               scene, n - 1, alloc_ok)

DomLoop(st, scene, n, alloc_ok) ==
    IF n = 0
    THEN st
    ELSE DomLayer(DomLoop(st, scene, n - 1, alloc_ok), n, scene[n], alloc_ok)

\* Svg::dom: shader first, then the loop
dom(c, allocs, display, scene, alloc_ok) ==
    DomLoop([cache |-> init_shader(c, display), allocs |-> allocs,
             draws |-> << >>, panicked |-> FALSE],
            scene, Len(scene), alloc_ok)

\* ------------------------------------------------------------------------
\* Actions
\* ------------------------------------------------------------------------

\* a call and what it returned; allocated: it created a GPU buffer pair
Call(op, arg, val) == [op |-> op, arg |-> arg, val |-> val, allocated |-> FALSE]

\* the threads that share the cache
Threads == 1 .. MaxThreads

\* a thread outside init_shader and outside the accessors
Idle == [at |-> "idle", which |-> "none", id |-> 0]

\* the program before any call: SvgCache::empty() and the statics at 0
InitCache ==
    /\ SVG_LAYER_ID = 0
    /\ SVG_TRANSFORM_ID = 0
    /\ SVG_VIEW_BOX_ID = 0
    /\ svg_cache = SvgCacheDefault
    /\ gpu_allocs = [which \in {"fill", "stroke"} |-> [id \in LayerIds |-> 0]]
    /\ removed = {}
    /\ minted = << >>
    /\ panicked = FALSE
    /\ shader_lock = None
    /\ gl_programs = 0
    /\ pc = [t \in Threads |-> Idle]
    /\ vectorized_fonts = EmptyMap
    /\ tesselated = 0
    /\ borrowed = None

Init ==
    /\ InitCache
    /\ ret = Call("empty", None, None)

AddLayer(layer) ==
    /\ ~panicked
    /\ UNCHANGED <<shader_lock, gl_programs, pc, vectorized_fonts, tesselated, borrowed>>
    /\ SVG_LAYER_ID < MaxLayerId
    /\ LET new == new_svg_layer_id(SVG_LAYER_ID)
       IN  /\ SVG_LAYER_ID' = new.counter
           /\ IF TesselateLayerDataPanics(layer.data)
              THEN \* the id is drawn, then tesselate_layer_data unwinds
                   /\ panicked' = TRUE
                   /\ ret' = Call("add_layer", Some(layer), None)
                   /\ UNCHANGED <<svg_cache, minted>>
              ELSE /\ svg_cache' = add_layer(svg_cache, new.id, layer)
                   /\ minted' = Append(minted, new.id)
                   /\ ret' = Call("add_layer", Some(layer), Some(new.id))
                   /\ UNCHANGED panicked
    /\ UNCHANGED <<SVG_TRANSFORM_ID, SVG_VIEW_BOX_ID, gpu_allocs, removed>>

AddSvg(doc) ==
    /\ ~panicked
    /\ UNCHANGED <<shader_lock, gl_programs, pc, vectorized_fonts, tesselated, borrowed>>
    /\ SVG_LAYER_ID + Len(doc.paths) <= MaxLayerId
    /\ LET r == add_svg(svg_cache, SVG_LAYER_ID, SVG_TRANSFORM_ID,
                        SVG_VIEW_BOX_ID, doc)
       IN  /\ svg_cache' = r.cache
           /\ SVG_LAYER_ID' = r.layer_counter
           /\ SVG_TRANSFORM_ID' = r.transform_counter
           /\ SVG_VIEW_BOX_ID' = r.view_box_counter
           /\ minted' = minted \o r.ids
           /\ panicked' = r.panicked
           /\ ret' = Call("add_svg", Some(doc),
                         IF r.panicked THEN None ELSE Some(Ok(r.ids)))
    /\ UNCHANGED <<gpu_allocs, removed>>

DeleteLayer(svg_id) ==
    /\ ~panicked
    /\ UNCHANGED <<shader_lock, gl_programs, pc, vectorized_fonts, tesselated, borrowed>>
    /\ svg_cache' = delete_layer(svg_cache, svg_id)
    /\ removed' = removed \cup ({svg_id} \cap Keys(svg_cache.layers))
    /\ ret' = Call("delete_layer", Some(svg_id), None)
    /\ UNCHANGED <<SVG_LAYER_ID, SVG_TRANSFORM_ID, SVG_VIEW_BOX_ID, gpu_allocs,
                   minted, panicked>>

ClearAllLayers ==
    /\ ~panicked
    /\ UNCHANGED <<shader_lock, gl_programs, pc, vectorized_fonts, tesselated, borrowed>>
    /\ svg_cache' = clear_all_layers(svg_cache)
    /\ removed' = removed \cup Keys(svg_cache.layers)
    /\ ret' = Call("clear_all_layers", None, None)
    /\ UNCHANGED <<SVG_LAYER_ID, SVG_TRANSFORM_ID, SVG_VIEW_BOX_ID, gpu_allocs,
                   minted, panicked>>

\* what a reference held since an earlier accessor call denotes once the
\* GPU map went from `before` to `after`: the map keeps its values inside its
\* table, and v.insert(..) of another key may displace or rehash the entries,
\* so the pair the reference points at may have moved away
Relocated(held, before, after) ==
    IF IsSome(held) /\ Keys(after) # Keys(before)
    THEN {held, Some([held.val EXCEPT !.dangling = TRUE])}
    ELSE {held}

\* a call of either accessor, up to what becomes of a reference held
LookupCall(which, id, alloc_ok) ==
    /\ ~panicked
    /\ UNCHANGED <<shader_lock, gl_programs, pc, vectorized_fonts, tesselated>>
    /\ LET window == Window(alloc_ok, gpu_allocs[which][id])
           r == IF which = "fill"
                THEN get_vertices_and_indices(svg_cache, window, id)
                ELSE get_stroke_vertices_and_indices(svg_cache, window, id)
       IN  /\ svg_cache' = r.cache
           /\ gpu_allocs' = IF r.allocated
                            THEN [gpu_allocs EXCEPT ![which][id] = @ + 1]
                            ELSE gpu_allocs
           /\ panicked' = r.panicked
           /\ ret' = [Call(which, Some(id), r.result) EXCEPT !.allocated = r.allocated]
    /\ UNCHANGED <<SVG_LAYER_ID, SVG_TRANSFORM_ID, SVG_VIEW_BOX_ID, removed, minted>>

\* a lookup through either accessor
Lookup(which, id, alloc_ok) ==
    /\ LookupCall(which, id, alloc_ok)
    /\ borrowed' \in Relocated(borrowed, svg_cache.vertex_index_buffer_cache,
                               svg_cache'.vertex_index_buffer_cache)

GetVerticesAndIndices(id, alloc_ok) == Lookup("fill", id, alloc_ok)

GetStrokeVerticesAndIndices(id, alloc_ok) == Lookup("stroke", id, alloc_ok)

GetStyle(id) ==
    /\ ~panicked
    /\ UNCHANGED <<shader_lock, gl_programs, pc, vectorized_fonts, tesselated, borrowed>>
    /\ LET r == get_style(svg_cache, id)
       IN  /\ panicked' = r.panicked
           /\ ret' = Call("get_style", Some(id), r.result)
    /\ UNCHANGED <<SVG_LAYER_ID, SVG_TRANSFORM_ID, SVG_VIEW_BOX_ID, svg_cache,
                   gpu_allocs, removed, minted>>

AddTransforms(transforms) ==
    /\ ~panicked
    /\ UNCHANGED <<shader_lock, gl_programs, pc, vectorized_fonts, tesselated, borrowed>>
    /\ svg_cache' = add_transforms(svg_cache, transforms)
    /\ ret' = Call("add_transforms", Some(transforms), None)
    /\ UNCHANGED <<SVG_LAYER_ID, SVG_TRANSFORM_ID, SVG_VIEW_BOX_ID, gpu_allocs,
                   removed, minted, panicked>>

Dom(scene, alloc_ok) ==
    /\ ~panicked
    /\ gl_programs' = IF shader_is_none(svg_cache) THEN gl_programs + 1
                                                    ELSE gl_programs
    /\ UNCHANGED <<shader_lock, pc, vectorized_fonts, tesselated>>
    /\ borrowed' \in Relocated(borrowed, svg_cache.vertex_index_buffer_cache,
                               dom(svg_cache, gpu_allocs, gl_programs, scene,
                                   alloc_ok).cache.vertex_index_buffer_cache)
    /\ LET r == dom(svg_cache, gpu_allocs, gl_programs, scene, alloc_ok)
       IN  /\ svg_cache' = r.cache
           /\ gpu_allocs' = r.allocs
           /\ panicked' = r.panicked
           /\ ret' = Call("dom", Some([scene |-> scene, alloc_ok |-> alloc_ok]),
                        Some(r.draws))
    /\ UNCHANGED <<SVG_LAYER_ID, SVG_TRANSFORM_ID, SVG_VIEW_BOX_ID, removed, minted>>

Next ==
    \/ \E layer \in LayerInputs : AddLayer(layer)
    \/ \E doc \in Docs : AddSvg(doc)
    \/ \E svg_id \in LayerIds : DeleteLayer(svg_id)
    \/ ClearAllLayers
    \/ \E id \in LayerIds, alloc_ok \in BOOLEAN : GetVerticesAndIndices(id, alloc_ok)
    \/ \E id \in LayerIds, alloc_ok \in BOOLEAN : GetStrokeVerticesAndIndices(id, alloc_ok)
    \/ \E id \in LayerIds : GetStyle(id)

\* the cache and its callers
Spec == Init /\ [][Next]_vars

NextRender ==
    \/ \E layer \in RenderLayerInputs : AddLayer(layer)
    \/ \E svg_id \in LayerIds : DeleteLayer(svg_id)
    \/ \E scene \in Scenes, alloc_ok \in BOOLEAN : Dom(scene, alloc_ok)

\* a frame loop: layers come and go between render passes
SpecRender == Init /\ [][NextRender]_vars

\* ------------------------------------------------------------------------
\* Threads sharing one cache through &self
\* ------------------------------------------------------------------------

Others ==
    <<SVG_LAYER_ID, SVG_TRANSFORM_ID, SVG_VIEW_BOX_ID, removed, minted, panicked,
      vectorized_fonts, tesselated, borrowed>>

\* let mut shader_lock = self.shader.lock().unwrap();
ShaderLock(t) ==
    /\ ~panicked
    /\ pc[t] = Idle
    /\ MutexFree(shader_lock)
    /\ shader_lock' = Some(t)
    /\ pc' = [pc EXCEPT ![t] = [Idle EXCEPT !.at = "is_none"]]
    /\ UNCHANGED <<Others, svg_cache, gpu_allocs, gl_programs, ret>>

\* if shader_lock.is_none()
ShaderIsNone(t) ==
    /\ pc[t].at = "is_none"
    /\ pc' = [pc EXCEPT ![t].at = IF shader_is_none(svg_cache) THEN "compile"
                                                              ELSE "clone"]
    /\ UNCHANGED <<Others, svg_cache, gpu_allocs, gl_programs, ret, shader_lock>>

\* *shader_lock = Some(SvgShader::new(display));
ShaderCompile(t) ==
    /\ pc[t].at = "compile"
    /\ svg_cache' = SvgShaderNew(svg_cache, gl_programs)
    /\ gl_programs' = gl_programs + 1
    /\ pc' = [pc EXCEPT ![t] = [at |-> "clone", which |-> "compiled", id |-> 0]]
    /\ UNCHANGED <<Others, gpu_allocs, ret, shader_lock>>

\* shader_lock.as_ref().and_then(|s| Some(s.clone())).unwrap(); the guard is
\* dropped on return
ShaderClone(t) ==
    /\ pc[t].at = "clone"
    /\ ret' = [Call("init_shader", Some(t), svg_cache.shader)
                  EXCEPT !.allocated = (pc[t].which = "compiled")]
    /\ shader_lock' = None
    /\ pc' = [pc EXCEPT ![t] = Idle]
    /\ UNCHANGED <<Others, svg_cache, gpu_allocs, gl_programs>>

\* rmut of an accessor: &mut *self.(stroke_)vertex_index_buffer_cache.get()
GpuMapOf(c, which) ==
    IF which = "fill" THEN c.vertex_index_buffer_cache
                      ELSE c.stroke_vertex_index_buffer_cache

\* rnotmut of an accessor
CpuMapOf(c, which) ==
    IF which = "fill" THEN c.gpu_ready_to_upload_cache
                      ELSE c.stroke_gpu_ready_to_upload_cache

WithGpuMap(c, which, m) ==
    IF which = "fill" THEN [c EXCEPT !.vertex_index_buffer_cache = m]
                      ELSE [c EXCEPT !.stroke_vertex_index_buffer_cache = m]

\* thread t holds the &mut it made of the GPU map of that kind
InAccessor(t, which) == pc[t].at \in {"insert", "get"} /\ pc[t].which = which

\* an accessor up to `match rmut.entry(*id)`: Occupied goes on to
\* rmut.get(id); Vacant without a CPU mesh returns None; Vacant with one goes
\* on to create and insert the buffers
AccessorEntry(t, which, id) ==
    /\ ~panicked
    /\ pc[t] = Idle
    /\ IF id \in Keys(GpuMapOf(svg_cache, which))
       THEN /\ pc' = [pc EXCEPT ![t] = [at |-> "get", which |-> which, id |-> id]]
            /\ UNCHANGED ret
       ELSE IF id \notin Keys(CpuMapOf(svg_cache, which))
       THEN /\ ret' = Call(which, Some(id), None)
            /\ UNCHANGED pc
       ELSE /\ pc' = [pc EXCEPT ![t] = [at |-> "insert", which |-> which, id |-> id]]
            /\ UNCHANGED ret
    /\ UNCHANGED <<Others, svg_cache, gpu_allocs, gl_programs, shader_lock>>

\* what v.insert(..) can leave in the map: with another thread holding a
\* &mut of the same map the write is a data race, and either pair may end up
\* stored under the key
InsertOutcomes(m, id, bufs, raced) ==
    IF raced /\ id \in Keys(m)
    THEN {MapInsert(m, id, bufs), m}
    ELSE {MapInsert(m, id, bufs)}

\* VertexBuffer::new(..).unwrap(); IndexBuffer::new(..).unwrap();
\* v.insert((vertex_buffer, index_buffer));
AccessorInsert(t) ==
    /\ pc[t].at = "insert"
    /\ gpu_allocs' = [gpu_allocs EXCEPT ![pc[t].which][pc[t].id] = @ + 1]
    /\ \E m \in InsertOutcomes(
                  GpuMapOf(svg_cache, pc[t].which), pc[t].id,
                  << [data |-> CpuMapOf(svg_cache, pc[t].which)[pc[t].id][1],
                      gen |-> gpu_allocs[pc[t].which][pc[t].id]],
                     [data |-> CpuMapOf(svg_cache, pc[t].which)[pc[t].id][2],
                      gen |-> gpu_allocs[pc[t].which][pc[t].id]] >>,
                  \E u \in Threads \ {t} : InAccessor(u, pc[t].which)) :
          svg_cache' = WithGpuMap(svg_cache, pc[t].which, m)
    /\ pc' = [pc EXCEPT ![t].at = "get"]
    /\ UNCHANGED <<Others, gl_programs, ret, shader_lock>>

\* rmut.get(id)
AccessorGet(t) ==
    /\ pc[t].at = "get"
    /\ ret' = Call(pc[t].which, Some(pc[t].id),
                  MapGet(GpuMapOf(svg_cache, pc[t].which), pc[t].id))
    /\ pc' = [pc EXCEPT ![t] = Idle]
    /\ UNCHANGED <<Others, svg_cache, gpu_allocs, gl_programs, shader_lock>>

\* the accessor the threads call: get_vertices_and_indices (the stroke
\* accessor runs the same code over its own pair of maps)
ConcurrentKinds == {"fill"}

\* the layers added while threads use the cache
ConcurrentLayerInputs == { Layer(<<"Circle">>, BothStyle) }

\* add_layer takes &mut self: no other thread is inside the cache
ExclusiveAddLayer(layer) ==
    /\ \A t \in Threads : pc[t] = Idle
    /\ AddLayer(layer)

NextConcurrent ==
    \/ \E layer \in ConcurrentLayerInputs : ExclusiveAddLayer(layer)
    \/ \E t \in Threads : ShaderLock(t)
    \/ \E t \in Threads : ShaderIsNone(t)
    \/ \E t \in Threads : ShaderCompile(t)
    \/ \E t \in Threads : ShaderClone(t)
    \/ \E t \in Threads, which \in ConcurrentKinds, id \in LayerIds :
          AccessorEntry(t, which, id)
    \/ \E t \in Threads : AccessorInsert(t)
    \/ \E t \in Threads : AccessorGet(t)

\* threads calling init_shader and the accessors on a shared &SvgCache
SpecConcurrent == Init /\ [][NextConcurrent]_vars

\* ------------------------------------------------------------------------
\* A caller that keeps the reference an accessor returned. The accessors take
\* &'a self and return Option<&'a (VertexBuffer, IndexBuffer)>: while the
\* reference lives the caller may call every &self method, and no &mut self
\* method
\* ------------------------------------------------------------------------

\* the reference get_vertices_and_indices returned for id
Reference_to(id, pair) == [id |-> id, pair |-> pair, dangling |-> FALSE]

\* let r = svg_cache.get_vertices_and_indices(window, &id); r is kept
Borrow(id, alloc_ok) ==
    /\ ~IsSome(borrowed)
    /\ LookupCall("fill", id, alloc_ok)
    /\ borrowed' = IF IsSome(ret'.val) THEN Some(Reference_to(id, ret'.val.val))
                                       ELSE None

\* r goes out of scope
Release ==
    /\ ~panicked
    /\ IsSome(borrowed)
    /\ borrowed' = None
    /\ ret' = Call("drop", Some(borrowed.val.id), None)
    /\ UNCHANGED <<SVG_LAYER_ID, SVG_TRANSFORM_ID, SVG_VIEW_BOX_ID, svg_cache,
                   gpu_allocs, removed, minted, panicked, shader_lock,
                   gl_programs, pc, vectorized_fonts, tesselated>>

\* what the memory r points at holds after the table let go of it
Freed == << [data |-> << >>, gen |-> -1], [data |-> << >>, gen |-> -1] >>

\* what *r reads: the pair while the entry is where it was; through a
\* dangling reference the read is undefined, and either the old bytes or
\* whatever took their place come back
DerefOutcomes(held) ==
    IF held.dangling THEN {held.pair, Freed} ELSE {held.pair}

\* the caller uses r, as Svg::dom does when it draws
Deref ==
    /\ ~panicked
    /\ IsSome(borrowed)
    /\ \E pair \in DerefOutcomes(borrowed.val) :
          ret' = Call("deref", Some(borrowed.val.id), Some(pair))
    /\ UNCHANGED <<SVG_LAYER_ID, SVG_TRANSFORM_ID, SVG_VIEW_BOX_ID, svg_cache,
                   gpu_allocs, removed, minted, panicked, shader_lock,
                   gl_programs, pc, vectorized_fonts, tesselated, borrowed>>

\* a &mut self method: the borrow checker wants every reference gone
Exclusive == ~IsSome(borrowed)

NextBorrow ==
    \/ \E layer \in ConcurrentLayerInputs : Exclusive /\ AddLayer(layer)
    \/ \E svg_id \in LayerIds : Exclusive /\ DeleteLayer(svg_id)
    \/ Exclusive /\ ClearAllLayers
    \/ \E id \in LayerIds : Borrow(id, TRUE)
    \/ \E id \in LayerIds : GetVerticesAndIndices(id, TRUE)
    \/ Deref
    \/ Release

\* layers come and go while a caller holds on to a buffer reference
SpecBorrow == Init /\ [][NextBorrow]_vars

\* layers whose polygon the fill tessellator rejects, alone or after a
\* primitive that tessellates
MalformedLayerInputs ==
    { Layer(<<"MalformedPolygon">>, filled("red")),
      Layer(<<"Circle", "MalformedPolygon">>, BothStyle) }

NextTessellate ==
    \/ \E layer \in LayerInputs \cup MalformedLayerInputs : AddLayer(layer)
    \/ \E svg_id \in LayerIds : DeleteLayer(svg_id)
    \/ \E id \in LayerIds : GetVerticesAndIndices(id, TRUE)

\* callers add layers of every kind of path data
SpecTessellate == Init /\ [][NextTessellate]_vars

NextTables ==
    \/ \E doc \in Docs : AddSvg(doc)
    \/ \E transforms \in TransformBatches : AddTransforms(transforms)
    \/ \E svg_id \in LayerIds : DeleteLayer(svg_id)
    \/ ClearAllLayers

\* documents are loaded, their shapes moved, deleted, and the scene reset
SpecTables == Init /\ [][NextTables]_vars

NextTransforms ==
    \/ \E doc \in Docs : AddSvg(doc)
    \/ \E transforms \in TransformBatches : AddTransforms(transforms)
    \/ \E svg_id \in LayerIds : DeleteLayer(svg_id)

\* documents are loaded and the application moves their shapes
SpecTransforms == Init /\ [][NextTransforms]_vars

\* ------------------------------------------------------------------------
\* VectorizedFont and VectorizedFontCache
\* ------------------------------------------------------------------------

\* the glyph ids of a font are 0 .. MaxGlyphId
MaxGlyphId == 3

\* from_font preloads GlyphId(0 .. 128); here the first PreloadedGlyphs ids
PreloadedGlyphs == 2

\* font ids the cache is asked about
MaxFonts == 1

GlyphIds == 0 .. MaxGlyphId

FontIds == 0 .. (MaxFonts - 1)

\* a rusttype Font: per glyph id its outline (get_data()?.shape), named by
\* the mesh the tessellator emits for it, or None for a glyph without outline
FontInputs ==
    { [g \in GlyphIds |->
         IF g = 1 THEN None
         ELSE IF g % 2 = 0 THEN Some("Polygon") ELSE Some("Rect")],
      [g \in GlyphIds |-> IF g % 2 = 1 THEN Some("Circle") ELSE None] }

\* glyph_to_svg_layer_type(font.glyph(id))
glyph_to_svg_layer_type(font, id) == font[id]

\* poly.tesselate(DEFAULT_GLYPH_TOLERANCE, Some(SvgStrokeOptions::default()))
TesselateGlyph(poly) ==
    tesselate(poly, DEFAULT_GLYPH_TOLERANCE, Some(DefaultStrokeOptions))

VectorizedFont(glyph_polygon_map, glyph_stroke_map) ==
    [glyph_polygon_map |-> glyph_polygon_map,
     glyph_stroke_map  |-> glyph_stroke_map]

\* the `if let Some((polygon_verts, stroke_verts)) = ..` block of from_font
\* for one glyph id: both maps get the glyph, or neither
PreloadGlyph(acc, font, glyph_id) ==
    IF IsSome(glyph_to_svg_layer_type(font, glyph_id))
    THEN VectorizedFont(
            MapInsert(acc.glyph_polygon_map, glyph_id,
                      TesselateGlyph(glyph_to_svg_layer_type(font, glyph_id).val)[1]),
            MapInsert(acc.glyph_stroke_map, glyph_id,
                      TesselateGlyph(glyph_to_svg_layer_type(font, glyph_id).val)[2].val))
    ELSE acc

\* `for g in (0..128).filter_map(..)`: the glyph ids 1 .. n, id 0 filtered out
RECURSIVE PreloadLoop(_, _)
PreloadLoop(font, n) ==
    IF n = 0 THEN VectorizedFont(EmptyMap, EmptyMap)
    ELSE PreloadGlyph(PreloadLoop(font, n - 1), font, n)

\* VectorizedFont::from_font: the loop, then the block for GlyphId(0)
from_font(font) ==
    PreloadGlyph(PreloadLoop(font, PreloadedGlyphs - 1), font, 0)

\* the outlines from_font hands to the tessellator
FromFontTesselated(font) ==
    Cardinality({g \in 0 .. (PreloadedGlyphs - 1) :
                    IsSome(glyph_to_svg_layer_type(font, g))})

\* what a glyph lookup leaves behind: the font with its maps, the returned
\* Option, and how many outlines went to the tessellator
Looked(vectorized_font, val, n) ==
    [vectorized_font |-> vectorized_font, val |-> val, tesselated |-> n]

\* a lookup that leaves the stroke map alone on a miss
get_fill_vertices_fill_map_only(vectorized_font, original_font, id) ==
    IF id \in Keys(vectorized_font.glyph_polygon_map)
    THEN Looked(vectorized_font, Some(vectorized_font.glyph_polygon_map[id]), 0)
    ELSE IF ~IsSome(glyph_to_svg_layer_type(original_font, id))
    THEN Looked(vectorized_font, None, 0)
    ELSE Looked(
            VectorizedFont(
                MapInsert(vectorized_font.glyph_polygon_map, id,
                          TesselateGlyph(glyph_to_svg_layer_type(original_font, id).val)[1]),
                vectorized_font.glyph_stroke_map),
            Some(TesselateGlyph(glyph_to_svg_layer_type(original_font, id).val)[1]),
            1)

\* get_fill_vertices: Occupied returns the stored mesh; Vacant returns None
\* for a glyph without outline, else tessellates and inserts into both maps
get_fill_vertices(vectorized_font, original_font, id) ==
    IF id \in Keys(vectorized_font.glyph_polygon_map)
    THEN Looked(vectorized_font, Some(vectorized_font.glyph_polygon_map[id]), 0)
    ELSE IF ~IsSome(glyph_to_svg_layer_type(original_font, id))
    THEN Looked(vectorized_font, None, 0)
    ELSE Looked(
            VectorizedFont(
                MapInsert(vectorized_font.glyph_polygon_map, id,
                          TesselateGlyph(glyph_to_svg_layer_type(original_font, id).val)[1]),
                MapInsert(vectorized_font.glyph_stroke_map, id,
                          TesselateGlyph(glyph_to_svg_layer_type(original_font, id).val)[2].val)),
            Some(TesselateGlyph(glyph_to_svg_layer_type(original_font, id).val)[1]),
            1)

\* a lookup that tessellates the glyph of original_font again on a hit and
\* stores the new mesh over the old one
get_stroke_vertices_tesselates_on_hit(vectorized_font, original_font, id) ==
    IF ~IsSome(glyph_to_svg_layer_type(original_font, id))
    THEN Looked(vectorized_font,
                MapGet(vectorized_font.glyph_stroke_map, id), 0)
    ELSE Looked(
            VectorizedFont(
                MapInsert(vectorized_font.glyph_polygon_map, id,
                          TesselateGlyph(glyph_to_svg_layer_type(original_font, id).val)[1]),
                MapInsert(vectorized_font.glyph_stroke_map, id,
                          TesselateGlyph(glyph_to_svg_layer_type(original_font, id).val)[2].val)),
            Some(TesselateGlyph(glyph_to_svg_layer_type(original_font, id).val)[2].val),
            1)

\* get_stroke_vertices: the same over the stroke map
get_stroke_vertices(vectorized_font, original_font, id) ==
    IF id \in Keys(vectorized_font.glyph_stroke_map)
    THEN Looked(vectorized_font, Some(vectorized_font.glyph_stroke_map[id]), 0)
    ELSE IF ~IsSome(glyph_to_svg_layer_type(original_font, id))
    THEN Looked(vectorized_font, None, 0)
    ELSE Looked(
            VectorizedFont(
                MapInsert(vectorized_font.glyph_polygon_map, id,
                          TesselateGlyph(glyph_to_svg_layer_type(original_font, id).val)[1]),
                MapInsert(vectorized_font.glyph_stroke_map, id,
                          TesselateGlyph(glyph_to_svg_layer_type(original_font, id).val)[2].val)),
            Some(TesselateGlyph(glyph_to_svg_layer_type(original_font, id).val)[2].val),
            1)

\* what a cache method leaves behind: the map and the outlines tessellated
Cached(fonts, n) == [vectorized_fonts |-> fonts, tesselated |-> n]

\* an insert_if_not_exist that vectorizes and stores whether or not the id
\* is present
insert_if_not_exist_overwrites(fonts, id, font) ==
    Cached(MapInsert(fonts, id, from_font(font)), FromFontTesselated(font))

\* VectorizedFontCache::insert_if_not_exist:
\* entry(id).or_insert_with(|| VectorizedFont::from_font(font))
insert_if_not_exist(fonts, id, font) ==
    IF id \in Keys(fonts)
    THEN Cached(fonts, 0)
    ELSE Cached(MapInsert(fonts, id, from_font(font)), FromFontTesselated(font))

\* VectorizedFontCache::insert
insert(fonts, id, font) == MapInsert(fonts, id, font)

\* VectorizedFontCache::get_font
get_font(fonts, id) == MapGet(fonts, id)

\* VectorizedFontCache::remove_font
remove_font(fonts, id) == MapRemove(fonts, id)

\* the frame of the font actions
NotFonts ==
    <<SVG_LAYER_ID, SVG_TRANSFORM_ID, SVG_VIEW_BOX_ID, svg_cache, gpu_allocs,
      removed, minted, panicked, shader_lock, gl_programs, pc, borrowed>>

\* `self`, the cache the call received, goes with the arguments
InsertIfNotExist(id, font) ==
    /\ vectorized_fonts' = insert_if_not_exist(vectorized_fonts, id, font).vectorized_fonts
    /\ tesselated' = insert_if_not_exist(vectorized_fonts, id, font).tesselated
    /\ ret' = Call("insert_if_not_exist",
                   Some([self |-> vectorized_fonts, id |-> id, font |-> font]),
                   None)
    /\ UNCHANGED NotFonts

\* insert(id, VectorizedFont::from_font(font)): the caller vectorizes the
\* font itself
Insert(id, font) ==
    /\ vectorized_fonts' = insert(vectorized_fonts, id, from_font(font))
    /\ tesselated' = FromFontTesselated(font)
    /\ ret' = Call("insert",
                   Some([self |-> vectorized_fonts, id |-> id, font |-> font]),
                   None)
    /\ UNCHANGED NotFonts

GetFont(id) ==
    /\ tesselated' = 0
    /\ ret' = Call("get_font", Some([self |-> vectorized_fonts, id |-> id]),
                   Some(get_font(vectorized_fonts, id)))
    /\ UNCHANGED <<NotFonts, vectorized_fonts>>

RemoveFont(id) ==
    /\ vectorized_fonts' = remove_font(vectorized_fonts, id)
    /\ tesselated' = 0
    /\ ret' = Call("remove_font", Some([self |-> vectorized_fonts, id |-> id]),
                   None)
    /\ UNCHANGED NotFonts

\* the outcome of a lookup on the font get_font(font_id) returned: the maps
\* sit behind Rc<RefCell<..>>, so what the lookup inserts is in the cache
GlyphLookup(op, r, font_id, original_font, id) ==
    /\ vectorized_fonts' = [vectorized_fonts EXCEPT ![font_id] = r.vectorized_font]
    /\ tesselated' = r.tesselated
    /\ ret' = Call(op,
                   Some([self |-> vectorized_fonts, font_id |-> font_id,
                         original_font |-> original_font, id |-> id]),
                   Some(r.val))
    /\ UNCHANGED NotFonts

GetFillVertices(font_id, original_font, id) ==
    /\ IsSome(get_font(vectorized_fonts, font_id))
    /\ GlyphLookup("get_fill_vertices",
                   get_fill_vertices(vectorized_fonts[font_id], original_font, id),
                   font_id, original_font, id)

GetStrokeVertices(font_id, original_font, id) ==
    /\ IsSome(get_font(vectorized_fonts, font_id))
    /\ GlyphLookup("get_stroke_vertices",
                   get_stroke_vertices(vectorized_fonts[font_id], original_font, id),
                   font_id, original_font, id)

NextFonts ==
    \/ \E id \in FontIds, font \in FontInputs : InsertIfNotExist(id, font)
    \/ \E id \in FontIds, font \in FontInputs : Insert(id, font)
    \/ \E id \in FontIds : GetFont(id)
    \/ \E id \in FontIds : RemoveFont(id)
    \/ \E font_id \in FontIds, original_font \in FontInputs, id \in GlyphIds :
         GetFillVertices(font_id, original_font, id)
    \/ \E font_id \in FontIds, original_font \in FontInputs, id \in GlyphIds :
         GetStrokeVertices(font_id, original_font, id)

\* fonts are vectorized, looked up glyph by glyph, and dropped
SpecFonts == Init /\ [][NextFonts]_vars

\* ------------------------------------------------------------------------
\* SampledBezierCurve. The f32 coordinates and lengths are kept as integers
\* in units of 1/1000; control points sit on whole numbers, so the sampled
\* points are exact, and sqrt rounds down to the unit.
\* ------------------------------------------------------------------------

BEZIER_SAMPLE_RATE == 10

\* the largest coordinate of a control point, in whole numbers
MaxCoord == 1

\* units per whole number: t = i / BEZIER_SAMPLE_RATE cubed has this
\* denominator
Unit == BEZIER_SAMPLE_RATE * BEZIER_SAMPLE_RATE * BEZIER_SAMPLE_RATE

BezierControlPoint(x, y) == [x |-> x, y |-> y]

ControlPoints ==
    { BezierControlPoint(a * Unit, b * Unit) : a, b \in 0 .. MaxCoord }

\* a curve along the x axis whose point at t = 1 / BEZIER_SAMPLE_RATE falls
\* back on control point 0: 3 (1 - t) t^2 (x2 - x0) + t^3 (x3 - x0) = 0, so
\* the first sampled segment has no length while the later ones have
StallingCurve(s) ==
    [i \in 0 .. 3 |->
        BezierControlPoint(
            (IF i = 3 THEN 0
             ELSE IF i = 2 THEN (3 * (BEZIER_SAMPLE_RATE - 1) + 1) * s
             ELSE 3 * (BEZIER_SAMPLE_RATE - 1) * s) * Unit,
            0)]

\* the same curve run from its end: the last sampled segment has no length
Reversed(curve) == [i \in 0 .. 3 |-> curve[3 - i]]

\* curve: &[BezierControlPoint; 4], indexed from 0 as in the source
Curves ==
    [0 .. 3 -> ControlPoints]
    \cup UNION { { StallingCurve(s), Reversed(StallingCurve(s)) } : s \in 1 .. MaxCoord }

\* f32::sqrt, rounded down: the largest r in lo .. hi with r * r <= n
RECURSIVE SqrtSearch(_, _, _)
SqrtSearch(n, lo, hi) ==
    IF lo = hi THEN lo
    ELSE IF ((lo + hi + 1) \div 2) * ((lo + hi + 1) \div 2) <= n
    THEN SqrtSearch(n, (lo + hi + 1) \div 2, hi)
    ELSE SqrtSearch(n, lo, ((lo + hi + 1) \div 2) - 1)

sqrt(n) == SqrtSearch(n, 0, IF n < 46340 THEN n ELSE 46340)

\* BezierControlPoint::distance
distance(self, other) ==
    sqrt((other.x - self.x) * (other.x - self.x)
         + (other.y - self.y) * (other.y - self.y))

\* cubic_interpolate_bezier(curve, t) for t = i / BEZIER_SAMPLE_RATE
cubic_interpolate_bezier(curve, i) ==
    LET t == i
        one_minus == BEZIER_SAMPLE_RATE - i
        one_minus_square == one_minus * one_minus
        one_minus_cubic == one_minus * one_minus * one_minus
    IN  BezierControlPoint(
            (one_minus_cubic * curve[0].x
               + 3 * one_minus_square * t * curve[1].x
               + 3 * one_minus * t * t * curve[2].x
               + t * t * t * curve[3].x) \div Unit,
            (one_minus_cubic * curve[0].y
               + 3 * one_minus_square * t * curve[1].y
               + 3 * one_minus * t * t * curve[2].y
               + t * t * t * curve[3].y) \div Unit)

\* sampled_bezier_points after the first loop and the assignment of curve[3]:
\* the array starts as copies of curve[0], and index 0 is never written
SampledPoints(curve) ==
    [i \in 0 .. BEZIER_SAMPLE_RATE |->
        IF i = 0 THEN curve[0]
        ELSE IF i = BEZIER_SAMPLE_RATE THEN curve[3]
        ELSE cubic_interpolate_bezier(curve, i)]

\* a loop body that adds the chord before it stores the length
ParametrizeStep_stores_after_adding(acc, i, dist_current) ==
    [arc_length_parametrization |->
        [acc.arc_length_parametrization EXCEPT ![i] = acc.arc_length + dist_current],
     arc_length |-> acc.arc_length + dist_current]

\* the body of `for (i, w) in sampled_bezier_points.windows(2).enumerate()`
ParametrizeStep(acc, i, dist_current) ==
    [arc_length_parametrization |->
        [acc.arc_length_parametrization EXCEPT ![i] = acc.arc_length],
     arc_length |-> acc.arc_length + dist_current]

\* the loop over the first n windows
RECURSIVE ParametrizeLoop(_, _)
ParametrizeLoop(points, n) ==
    IF n = 0
    THEN [arc_length_parametrization |-> [i \in 0 .. BEZIER_SAMPLE_RATE |-> 0],
          arc_length |-> 0]
    ELSE ParametrizeStep(ParametrizeLoop(points, n - 1), n - 1,
                         distance(points[n - 1], points[n]))

\* arc_length_parametrization[BEZIER_SAMPLE_RATE] = arc_length, and the
\* returned struct
SampledBezierCurve(acc, points) ==
    [arc_length |-> acc.arc_length,
     sampled_bezier_points |-> points,
     arc_length_parametrization |->
        [acc.arc_length_parametrization EXCEPT ![BEZIER_SAMPLE_RATE] = acc.arc_length]]

from_curve(curve) ==
    SampledBezierCurve(
        ParametrizeLoop(SampledPoints(curve), BEZIER_SAMPLE_RATE),
        SampledPoints(curve))

RECURSIVE Gcd(_, _)
Gcd(a, b) == IF b = 0 THEN a ELSE Gcd(b, a % b)

\* the f32 num / den for num, den >= 0, in lowest terms; den = 0 is what a
\* division by zero gives: NaN for 0 / 0, infinity otherwise
Ratio(num, den) ==
    IF den = 0
    THEN [num |-> IF num = 0 THEN 0 ELSE 1, den |-> 0]
    ELSE [num |-> num \div Gcd(num, den), den |-> den \div Gcd(num, den)]

\* a search that also moves the lower bound to an entry equal to the offset
SearchStep_at_most(acc, i, param, offset) ==
    IF acc.done THEN acc
    ELSE IF param <= offset THEN [acc EXCEPT !.lower_bound = i]
    ELSE [acc EXCEPT !.upper_bound = i, !.done = TRUE]

\* the body of the search loop of get_bezier_percentage_from_offset; `done`
\* is the break
SearchStep(acc, i, param, offset) ==
    IF acc.done THEN acc
    ELSE IF param < offset THEN [acc EXCEPT !.lower_bound = i]
    ELSE IF param > offset THEN [acc EXCEPT !.upper_bound = i, !.done = TRUE]
    ELSE acc

\* the loop over the first n entries of arc_length_parametrization
RECURSIVE SearchLoop(_, _, _)
SearchLoop(arc_length_parametrization, offset, n) ==
    IF n = 0
    THEN [lower_bound |-> 0, upper_bound |-> BEZIER_SAMPLE_RATE, done |-> FALSE]
    ELSE SearchStep(SearchLoop(arc_length_parametrization, offset, n - 1),
                    n - 1, arc_length_parametrization[n - 1], offset)

\* lower_bound_percent + (upper_bound_percent - lower_bound_percent)
\*                       * interpolate_percent, over one denominator
InterpolatePercent(lower_bound, upper_bound, lower_bound_value, upper_bound_value, offset) ==
    Ratio(lower_bound * (upper_bound_value - lower_bound_value)
            + (upper_bound - lower_bound) * (offset - lower_bound_value),
          BEZIER_SAMPLE_RATE * (upper_bound_value - lower_bound_value))

Interpolate(self, offset, bounds) ==
    InterpolatePercent(bounds.lower_bound, bounds.upper_bound,
                       self.arc_length_parametrization[bounds.lower_bound],
                       self.arc_length_parametrization[bounds.upper_bound],
                       offset)

\* a search that also visits the last entry of the table
get_bezier_percentage_from_offset_searches_last(self, offset) ==
    Interpolate(self, offset,
                SearchLoop(self.arc_length_parametrization, offset,
                           BEZIER_SAMPLE_RATE + 1))

\* .take(BEZIER_SAMPLE_RATE): the last entry is left out of the search
get_bezier_percentage_from_offset(self, offset) ==
    Interpolate(self, offset,
                SearchLoop(self.arc_length_parametrization, offset,
                           BEZIER_SAMPLE_RATE))

\* ------------------------------------------------------------------------
\* The mesh helpers, called on their own: free functions that take their
\* input by reference and touch no cache
\* ------------------------------------------------------------------------

\* every variable but `ret`
CacheState ==
    <<SVG_LAYER_ID, SVG_TRANSFORM_ID, SVG_VIEW_BOX_ID, svg_cache, gpu_allocs,
      removed, minted, panicked, shader_lock, gl_programs, pc,
      vectorized_fonts, tesselated, borrowed>>

\* a call of a free function that has not returned yet
Pending(op, arg) == Call(op, Some(arg), None)

\* the call in `ret` returns val
Return(val) ==
    /\ ret' = [ret EXCEPT !.val = Some(val)]
    /\ UNCHANGED CacheState

\* the slices handed to join_vertex_buffers
MeshSeqs == UNION { [1 .. n -> MeshInputs] : n \in 0 .. MaxMeshes }

\* the primitives of one layer
LayerDatas ==
    UNION { [1 .. n -> {"Circle", "Rect", "Polygon"}] : n \in 0 .. MaxMeshes }

\* the slices handed to quick_circles
CircleSeqs == UNION { [1 .. n -> CircleInputs] : n \in 0 .. MaxMeshes }

\* the slices handed to quick_lines
LineSeqs == UNION { [1 .. n -> LineInputs] : n \in 0 .. MaxMeshes }

\* the calls of the mesh helpers, each with its arguments
MeshCalls ==
    { Pending("join_vertex_buffers", input) : input \in MeshSeqs }
    \cup { Pending("tesselate_layer_data", <<layer_data, stroke_options>>) :
             layer_data \in LayerDatas,
             stroke_options \in {None, Some(DefaultStrokeOptions)} }
    \cup { Pending("quick_circles", <<circles, "green">>) : circles \in CircleSeqs }
    \cup { Pending("quick_lines", <<lines, "blue", stroke_options>>) :
             lines \in LineSeqs,
             stroke_options \in {None, Some(DefaultStrokeOptions)} }

InitMesh ==
    /\ InitCache
    /\ ret \in MeshCalls

JoinVertexBuffers ==
    /\ ret.op = "join_vertex_buffers"
    /\ ~IsSome(ret.val)
    /\ Return(join_vertex_buffers(ret.arg.val))

TesselateLayerData ==
    /\ ret.op = "tesselate_layer_data"
    /\ ~IsSome(ret.val)
    /\ Return(tesselate_layer_data(ret.arg.val[1], DEFAULT_GLYPH_TOLERANCE,
                                   ret.arg.val[2]))

QuickCircles ==
    /\ ret.op = "quick_circles"
    /\ ~IsSome(ret.val)
    /\ Return(quick_circles(ret.arg.val[1], ret.arg.val[2]))

QuickLines ==
    /\ ret.op = "quick_lines"
    /\ ~IsSome(ret.val)
    /\ Return(quick_lines(ret.arg.val[1], ret.arg.val[2], ret.arg.val[3]))

NextMesh ==
    \/ JoinVertexBuffers
    \/ TesselateLayerData
    \/ QuickCircles
    \/ QuickLines

\* a caller joins meshes, tessellates a layer or builds a quick layer
SpecMesh == InitMesh /\ [][NextMesh]_vars

\* ------------------------------------------------------------------------
\* Sampled curves, built and queried on their own
\* ------------------------------------------------------------------------

\* the offsets asked of a sampled curve: the length at each sample and the
\* middle of each chord
OffsetInputs(self) ==
    { self.arc_length_parametrization[k] : k \in 0 .. BEZIER_SAMPLE_RATE }
    \cup { self.arc_length + 1, self.arc_length + Unit }
    \cup { (self.arc_length_parametrization[k]
              + self.arc_length_parametrization[k + 1]) \div 2 :
             k \in 0 .. (BEZIER_SAMPLE_RATE - 1) }

\* a query of a sampled curve
OffsetCall(self, offset) ==
    Pending("get_bezier_percentage_from_offset", [self |-> self, offset |-> offset])

\* a curve is about to be sampled, or the sampled curve about to be queried
InitBezier ==
    /\ InitCache
    /\ \E curve \in Curves :
         \/ ret = Pending("from_curve", curve)
         \/ \E offset \in OffsetInputs(from_curve(curve)) :
              ret = OffsetCall(from_curve(curve), offset)

FromCurve ==
    /\ ret.op = "from_curve"
    /\ ~IsSome(ret.val)
    /\ Return(from_curve(ret.arg.val))

GetBezierPercentageFromOffset ==
    /\ ret.op = "get_bezier_percentage_from_offset"
    /\ ~IsSome(ret.val)
    /\ Return(get_bezier_percentage_from_offset(ret.arg.val.self,
                                                 ret.arg.val.offset))

NextBezier ==
    \/ FromCurve
    \/ GetBezierPercentageFromOffset

\* a curve is sampled, or a sampled curve is asked for a percentage
SpecBezier == InitBezier /\ [][NextBezier]_vars

\* ------------------------------------------------------------------------
\* Stroke options, converted on their own
\* ------------------------------------------------------------------------

\* DEFAULT_LINE_WIDTH = 1.0, in ten-thousandths
DEFAULT_LINE_WIDTH == 10000

\* how far above 0.0 and above 1.0 the stroke widths of a document reach, in
\* ten-thousandths
MaxStrokeWidth == 60

\* resvg strokes by width
StrokeInputs ==
    { [color |-> "blue", width |-> base + w] :
        base \in {0, DEFAULT_LINE_WIDTH}, w \in 0 .. MaxStrokeWidth }

\* stored options by line width
StrokeOptionInputs ==
    { [DefaultStrokeOptions EXCEPT !.line_width = (base + w) \div 10] :
        base \in {0, DEFAULT_LINE_WIDTH}, w \in 0 .. MaxStrokeWidth }

\* the calls of the stroke conversions
StrokeCalls ==
    { Pending("convert_stroke", s) : s \in StrokeInputs }
    \cup { Pending("into", opts) : opts \in StrokeOptionInputs }

InitStroke ==
    /\ InitCache
    /\ ret \in StrokeCalls

ConvertStroke ==
    /\ ret.op = "convert_stroke"
    /\ ~IsSome(ret.val)
    /\ Return(convert_stroke(ret.arg.val))

IntoStrokeOptions ==
    /\ ret.op = "into"
    /\ ~IsSome(ret.val)
    /\ Return(into_stroke_options(ret.arg.val))

NextStroke ==
    \/ ConvertStroke
    \/ IntoStrokeOptions

\* a stroke is read from a document or handed to the tessellator
SpecStroke == InitStroke /\ [][NextStroke]_vars

\* ------------------------------------------------------------------------
\* Cache consistency
\* ------------------------------------------------------------------------

Layers == svg_cache.layers

CpuFill == svg_cache.gpu_ready_to_upload_cache

CpuStroke == svg_cache.stroke_gpu_ready_to_upload_cache

GpuFill == svg_cache.vertex_index_buffer_cache

GpuStroke == svg_cache.stroke_vertex_index_buffer_cache

\* C1: in every reachable state the CPU fill-mesh map has exactly the key set
\* of the logical layer map.
C1_FillMeshKeysEqualLayerKeys == Keys(CpuFill) = Keys(Layers)

\* a layer is live next to one that was deleted after its buffers were made
C1_Witness ==
    /\ Keys(Layers) # {}
    /\ removed # {}
    /\ ret.op = "delete_layer"
    /\ \E id \in removed : gpu_allocs["fill"][id] = 1

\* C2: in every reachable state the GPU fill-buffer keys are a subset of the
\* CPU fill-mesh keys and the GPU stroke-buffer keys are a subset of the CPU
\* stroke-mesh keys.
C2_GpuKeysWithinCpuKeys ==
    /\ Keys(GpuFill) \subseteq Keys(CpuFill)
    /\ Keys(GpuStroke) \subseteq Keys(CpuStroke)

\* buffers of both kinds are live after a deletion of a materialized layer and
\* a lookup that found nothing
C2_Witness ==
    /\ Keys(GpuFill) # {}
    /\ Keys(GpuStroke) # {}
    /\ \E id \in removed : gpu_allocs["stroke"][id] = 1
    /\ ret.op \in {"fill", "stroke"}
    /\ ~IsSome(ret.val)

\* C3: the ids add_layer returned (directly or through add_svg) are strictly
\* increasing in allocation order, hence pairwise distinct, also across
\* delete_layer and clear_all_layers.
C3_LayerIdsStrictlyIncreasing ==
    \A i \in 1 .. Len(minted) : \A j \in 1 .. Len(minted) :
        i < j => minted[i] < minted[j]

\* a second id was handed out after the first one had been removed
C3_Witness ==
    /\ Len(minted) >= 2
    /\ minted[1] \in removed
    /\ minted[Len(minted)] \in Keys(Layers)

\* the value a map holds for a key, compared entry by entry
SameEntries(m1, m2, keys) == \A k \in keys : m1[k] = m2[k]

RemovedExactly(m1, m2, id) ==
    /\ Keys(m2) = Keys(m1) \ {id}
    /\ SameEntries(m1, m2, Keys(m2))

\* C4: delete_layer(id) removes exactly id's entries from the layer map, both
\* CPU mesh maps and both GPU buffer maps, keeps every other entry, raises no
\* error, and changes nothing when id is not present.
C4_DeleteLayerRemovesExactlyId ==
    [][ret'.op = "delete_layer" =>
          LET id == ret'.arg.val
          IN  /\ RemovedExactly(Layers, Layers', id)
              /\ RemovedExactly(CpuFill, CpuFill', id)
              /\ RemovedExactly(CpuStroke, CpuStroke', id)
              /\ RemovedExactly(GpuFill, GpuFill', id)
              /\ RemovedExactly(GpuStroke, GpuStroke', id)
              /\ svg_cache'.transforms = svg_cache.transforms
              /\ svg_cache'.view_boxes = svg_cache.view_boxes
              /\ svg_cache'.shader = svg_cache.shader
              /\ ~panicked'
              /\ (id \notin Keys(Layers) => svg_cache' = svg_cache)]_vars

\* a layer with buffers of both kinds was deleted while another layer with
\* buffers stayed
C4_Witness ==
    /\ ret.op = "delete_layer"
    /\ ret.arg.val \in removed
    /\ gpu_allocs["fill"][ret.arg.val] = 1
    /\ gpu_allocs["stroke"][ret.arg.val] = 1
    /\ Keys(GpuFill) # {}
    /\ Keys(GpuStroke) # {}

\* ------------------------------------------------------------------------
\* Lazy materialization
\* ------------------------------------------------------------------------

HasStroke(id) == IsSome(Layers[id].style.stroke)

C6_MaterializedOnce ==
    [][/\ (ret'.op = "fill" /\ ret'.arg.val \in Keys(GpuFill))
             => /\ ret'.val = Some(GpuFill[ret'.arg.val])
                /\ ~ret'.allocated
                /\ GpuFill' = GpuFill
                /\ gpu_allocs' = gpu_allocs
       /\ (ret'.op = "stroke" /\ ret'.arg.val \in Keys(GpuStroke))
             => /\ ret'.val = Some(GpuStroke[ret'.arg.val])
                /\ ~ret'.allocated
                /\ GpuStroke' = GpuStroke
                /\ gpu_allocs' = gpu_allocs
       /\ \A which \in {"fill", "stroke"} : \A id \in LayerIds :
             gpu_allocs'[which][id] <= 1]_vars

\* a repeated lookup: it returned buffers and did not create them
C6_Witness ==
    /\ ret.op = "fill"
    /\ IsSome(ret.val)
    /\ ~ret.allocated
    /\ gpu_allocs["fill"][ret.arg.val] = 1
    /\ ret.val.val = GpuFill[ret.arg.val]

\* C7: add_layer leaves both GPU buffer maps unchanged and the new id in
\* neither; a key enters a GPU buffer map only in a step that is the
\* accessor of that kind called for that id.
C7_AddLayerCreatesNoGpuBuffers ==
    [][/\ ret'.op = "add_layer"
             => /\ GpuFill' = GpuFill
                /\ GpuStroke' = GpuStroke
                /\ gpu_allocs' = gpu_allocs
                /\ ret'.val.val \notin (Keys(GpuFill') \cup Keys(GpuStroke'))
       /\ \A id \in Keys(GpuFill') \ Keys(GpuFill) :
             ret'.op = "fill" /\ ret'.arg.val = id /\ ret'.allocated
       /\ \A id \in Keys(GpuStroke') \ Keys(GpuStroke) :
             ret'.op = "stroke" /\ ret'.arg.val = id /\ ret'.allocated]_vars

\* a stroked layer was added to a cache that already holds GPU buffers
C7_Witness ==
    /\ ret.op = "add_layer"
    /\ ret.val.val \in Keys(Layers)
    /\ HasStroke(ret.val.val)
    /\ Keys(GpuFill) # {}
    /\ Keys(GpuStroke) # {}

\* C8: the CPU stroke-mesh map holds an entry for exactly the layers whose
\* style specifies a stroke.
C8_StrokeMeshIffStrokeStyle ==
    Keys(CpuStroke) = { id \in Keys(Layers) : HasStroke(id) }

\* a stroked layer next to a stroke-less one
C8_Witness ==
    \E a \in Keys(Layers) : \E b \in Keys(Layers) :
        /\ HasStroke(a)
        /\ ~HasStroke(b)
        /\ a \in Keys(CpuStroke)
        /\ b \in Keys(CpuFill)

\* layer i of the scene is a Reference to an id the cache does not hold
MissingReference(scene, i) ==
    scene[i].kind = "Reference" /\ scene[i].id \notin Keys(Layers)

\* C9: a render pass over a scene with a Reference to a stale or unknown id
\* does not crash, draws nothing for that layer and still draws the layers
\* the cache holds.
C9_RenderSkipsMissingReference ==
    (ret.op = "dom" /\ ret.arg.val.alloc_ok)
        => /\ ~panicked
           /\ \A i \in 1 .. Len(ret.arg.val.scene) :
                 IF MissingReference(ret.arg.val.scene, i)
                 THEN \A d \in 1 .. Len(ret.val.val) : ret.val.val[d].layer # i
                 ELSE (ret.arg.val.scene[i].kind = "Reference"
                         /\ IsSome(Layers[ret.arg.val.scene[i].id].style.fill))
                        => \E d \in 1 .. Len(ret.val.val) :
                              /\ ret.val.val[d].layer = i
                              /\ ret.val.val[d].kind = "fill"

C11_GetStyleReturnsInsertedStyle ==
    [][/\ ret'.op = "add_layer"
             => get_style(svg_cache', ret'.val.val)
                    = [result |-> Some(ret'.arg.val.style), panicked |-> FALSE]
       /\ \A id \in Keys(Layers) :
             (~(ret'.op = "delete_layer" /\ ret'.arg.val = id)
                 /\ ret'.op # "clear_all_layers")
                => (id \in Keys(Layers') /\ Layers'[id].style = Layers[id].style)
       /\ (ret'.op = "get_style" /\ ret'.arg.val \in Keys(Layers))
             => (ret'.val = Some(Layers[ret'.arg.val].style) /\ ~panicked')]_vars

\* get_style of layer 0 still answers its style after layer 1 came and went
C11_Witness ==
    /\ ret.op = "get_style"
    /\ ret.arg.val = 0
    /\ ret.val = Some(BothStyle)
    /\ 1 \in removed
    /\ ~panicked

\* C12: get_style of an id that is not in the layer map panics; it returns
\* neither a default style nor a not-found value.
C12_GetStyleOfAbsentIdPanics ==
    [][(ret'.op = "get_style" /\ ret'.arg.val \notin Keys(Layers))
          => (panicked' /\ ~IsSome(ret'.val))]_vars

\* get_style of a deleted layer while another layer is stored
C12_Witness ==
    /\ ret.op = "get_style"
    /\ ret.arg.val \in removed
    /\ Keys(Layers) # {}
    /\ panicked

\* C13: right after clear_all_layers the layer map, both CPU mesh maps and
\* both GPU buffer maps are empty.
C13_ClearAllLayersEmptiesEveryMap ==
    ret.op = "clear_all_layers"
        => /\ Keys(Layers) = {}
           /\ Keys(CpuFill) = {}
           /\ Keys(CpuStroke) = {}
           /\ Keys(GpuFill) = {}
           /\ Keys(GpuStroke) = {}

\* the cleared cache held a layer with both kinds of GPU buffers
C13_Witness ==
    /\ ret.op = "clear_all_layers"
    /\ \E id \in removed :
          gpu_allocs["fill"][id] = 1 /\ gpu_allocs["stroke"][id] = 1
    /\ minted[Len(minted)] \in removed

\* m2 is m1, possibly with one more entry for id
AddsAtMost(m1, m2, id) ==
    /\ Keys(m1) \subseteq Keys(m2)
    /\ Keys(m2) \subseteq Keys(m1) \cup {id}
    /\ SameEntries(m1, m2, Keys(m1))

\* C14: a call of either lazy accessor leaves the layer map, both CPU mesh
\* maps, the transform table, the view-box table and the GPU map of the other
\* kind unchanged; the GPU map of its own kind keeps its entries and gains at
\* most the entry of the requested id.
C14_AccessorsChangeOnlyTheirGpuMap ==
    [][ret'.op \in {"fill", "stroke"}
          => /\ Layers' = Layers
             /\ CpuFill' = CpuFill
             /\ CpuStroke' = CpuStroke
             /\ svg_cache'.transforms = svg_cache.transforms
             /\ svg_cache'.view_boxes = svg_cache.view_boxes
             /\ ret'.op = "fill"
                   => (GpuStroke' = GpuStroke
                         /\ AddsAtMost(GpuFill, GpuFill', ret'.arg.val))
             /\ ret'.op = "stroke"
                   => (GpuFill' = GpuFill
                         /\ AddsAtMost(GpuStroke, GpuStroke', ret'.arg.val))]_vars

\* a stroke lookup created buffers in a cache that holds fill buffers,
\* transforms and a view box
C14_Witness ==
    /\ ret.op = "stroke"
    /\ ret.allocated
    /\ ret.arg.val \in Keys(GpuStroke)
    /\ Keys(GpuFill) # {}
    /\ Keys(svg_cache.transforms) # {}
    /\ Keys(svg_cache.view_boxes) # {}

\* ------------------------------------------------------------------------
\* add_svg and add_transforms
\* ------------------------------------------------------------------------

\* enum SvgParseError
SvgParseError == {"FailedToParseSvg", "IoError"}

\* C17: add_svg of a well-formed document returns one new id per path, in
\* document order and strictly increasing, and get_style of the i-th id is
\* the style of the i-th path.
C17_AddSvgIdsInDocumentOrder ==
    [][(ret'.op = "add_svg" /\ ret'.arg.val.ok)
          => /\ IsSome(ret'.val)
             /\ ret'.val.val.ok
             /\ Len(ret'.val.val.val) = Len(ret'.arg.val.paths)
             /\ \A i \in 1 .. Len(ret'.val.val.val) :
                   /\ ret'.val.val.val[i] \notin Keys(Layers)
                   /\ \A j \in 1 .. Len(ret'.val.val.val) :
                         i < j => ret'.val.val.val[i] < ret'.val.val.val[j]
                   /\ get_style(svg_cache', ret'.val.val.val[i])
                        = [result |-> Some(PathStyle(ret'.arg.val.paths[i])),
                           panicked |-> FALSE]]_vars

\* a document with a filled path followed by a stroked one was added
C17_Witness ==
    /\ ret.op = "add_svg"
    /\ IsSome(ret.val)
    /\ Len(ret.val.val.val) = 2
    /\ IsSome(ret.arg.val.paths[1].fill)
    /\ IsSome(ret.arg.val.paths[2].stroke)
    /\ \A i \in 1 .. 2 : ret.val.val.val[i] \in Keys(Layers)

\* C18: add_svg of a malformed source returns Err(SvgParseError) to its
\* caller and does not crash.
C18_MalformedSvgReturnsParseError ==
    (ret.op = "add_svg" /\ ~ret.arg.val.ok)
        => /\ ~panicked
           /\ IsSome(ret.val)
           /\ ~ret.val.val.ok
           /\ ret.val.val.err \in SvgParseError

C20_AddTransformsMergesBatch ==
    [][ret'.op = "add_transforms"
          => /\ Keys(svg_cache'.transforms)
                    = Keys(svg_cache.transforms) \cup Keys(ret'.arg.val)
             /\ \A k \in Keys(ret'.arg.val) :
                   svg_cache'.transforms[k] = ret'.arg.val[k]
             /\ \A k \in Keys(svg_cache.transforms) \ Keys(ret'.arg.val) :
                   svg_cache'.transforms[k] = svg_cache.transforms[k]
             /\ [svg_cache' EXCEPT !.transforms = EmptyMap]
                    = [svg_cache EXCEPT !.transforms = EmptyMap]]_vars

\* the batch replaced the transform of an id that add_svg had registered and
\* left another entry of the table alone
C20_Witness ==
    /\ ret.op = "add_transforms"
    /\ \E k \in Keys(ret.arg.val) :
          /\ k < SVG_TRANSFORM_ID
          /\ ret.arg.val[k] = "Tc"
          /\ svg_cache.transforms[k] = "Tc"
    /\ \E j \in Keys(svg_cache.transforms) \ Keys(ret.arg.val) :
          svg_cache.transforms[j] # "Tc"

\* ------------------------------------------------------------------------
\* Shared access
\* ------------------------------------------------------------------------

\* C15: under every interleaving of init_shader calls at most one program is
\* ever compiled, it is compiled by the thread that holds the lock and found
\* the cell empty, the cell is never overwritten, and every call returns that
\* one program.
C15_ShaderCompiledOnce ==
    [][/\ gl_programs' <= 1
       /\ gl_programs' # gl_programs
             => \E t \in Threads :
                   /\ shader_lock = Some(t)
                   /\ pc[t].at = "compile"
                   /\ shader_is_none(svg_cache)
                   /\ svg_cache'.shader = Some(0)
       /\ IsSome(svg_cache.shader) => svg_cache'.shader = svg_cache.shader
       /\ ret'.op = "init_shader"
             => (ret'.val = Some(0) /\ ret'.val = svg_cache'.shader)]_vars

\* a call that did not compile returned the program another thread compiled,
\* while a third call is already past the lock
C15_Witness ==
    /\ ret.op = "init_shader"
    /\ ~ret.allocated
    /\ ret.val = Some(0)
    /\ gl_programs = 1
    /\ \E t \in Threads \ {ret.arg.val} : pc[t].at = "clone"

\* C16: no two threads are inside an accessor of the same GPU buffer map at
\* the same time, and no id gets a second buffer pair of one kind.
C16_SingleWriterPerGpuMap ==
    /\ \A which \in {"fill", "stroke"} : \A t \in Threads : \A u \in Threads :
          (t # u /\ InAccessor(t, which)) => ~InAccessor(u, which)
    /\ \A which \in {"fill", "stroke"} : \A id \in LayerIds :
          gpu_allocs[which][id] <= 1

\* ------------------------------------------------------------------------
\* SvgCallbacks: impl Hash and impl PartialEq. A pending call carries the
\* number of frames of the same function beneath it
\* ------------------------------------------------------------------------

\* stack frames a thread has room for
MaxStack == 3

\* the longest Vec<(usize, Callback<T>)> of SvgCallbacks::Some
MaxCallbacks == 1

\* Callback<T>: function pointers
Callbacks == {"on_click", "on_hover"}

CallbacksNone == [kind |-> "None"]

CallbacksAny(c) == [kind |-> "Any", c |-> c]

CallbacksSome(v) == [kind |-> "Some", v |-> v]

SvgCallbacks ==
    {CallbacksNone}
    \cup { CallbacksAny(c) : c \in Callbacks }
    \cup { CallbacksSome(v) :
             v \in UNION { [1 .. n -> (0 .. MaxCallbacks) \X Callbacks] :
                           n \in 0 .. MaxCallbacks } }

\* what the body of a function comes to: a value it returns, or a call it
\* makes and whose result it returns
Returns(val) == [returns |-> TRUE, val |-> val]

Calls(arg) == [returns |-> FALSE, arg |-> arg]

\* `for (id, callback) in v { id.hash(state); callback.hash(state); }` over
\* the first n entries
RECURSIVE HashEntries(_, _, _)
HashEntries(state, v, n) ==
    IF n = 0 THEN state
    ELSE HashEntries(state, v, n - 1) \o <<v[n][1], v[n][2]>>

\* impl Hash for SvgCallbacks: `state` is what was fed to the hasher; the
\* Any arm builds Any(*c) and hashes that, which is this function again
hash(self, state) ==
    IF self.kind = "None" THEN Returns(state \o <<0>>)
    ELSE IF self.kind = "Any" THEN Calls([self |-> CallbacksAny(self.c), state |-> state])
    ELSE Returns(HashEntries(state \o <<2>>, self.v, Len(self.v)))

\* impl PartialEq for SvgCallbacks: `self == rhs` on two &Self is
\* PartialEq::eq(*self, *rhs), this function again
eq(self, rhs) == Calls([self |-> self, rhs |-> rhs])

\* the call in `ret` with one more frame of it on the stack
Nested(arg) == [ret EXCEPT !.arg = Some([frames |-> ret.arg.val.frames + 1] @@ arg)]

\* one step of the function in `ret`: it returns, or calls and waits, or
\* finds no room for the frame of the call and the thread dies
StepInto(body) ==
    IF body.returns
    THEN Return(body.val)
    ELSE IF ret.arg.val.frames < MaxStack
    THEN /\ ret' = Nested(body.arg)
         /\ UNCHANGED CacheState
    ELSE /\ panicked' = TRUE
         /\ UNCHANGED <<SVG_LAYER_ID, SVG_TRANSFORM_ID, SVG_VIEW_BOX_ID, svg_cache,
                        gpu_allocs, removed, minted, ret, shader_lock,
                        gl_programs, pc, vectorized_fonts, tesselated, borrowed>>

InitCallbacks ==
    /\ InitCache
    /\ \/ \E self, rhs \in SvgCallbacks :
            ret = Pending("eq", [self |-> self, rhs |-> rhs, frames |-> 0])
       \/ \E self \in SvgCallbacks :
            ret = Pending("hash", [self |-> self, state |-> << >>, frames |-> 0])

Eq ==
    /\ ret.op = "eq"
    /\ ~IsSome(ret.val)
    /\ ~panicked
    /\ StepInto(eq(ret.arg.val.self, ret.arg.val.rhs))

Hash ==
    /\ ret.op = "hash"
    /\ ~IsSome(ret.val)
    /\ ~panicked
    /\ StepInto(hash(ret.arg.val.self, ret.arg.val.state))

NextCallbacks ==
    \/ Eq
    \/ Hash

\* two SvgCallbacks are compared, or one is hashed
SpecCallbacks == InitCallbacks /\ [][NextCallbacks]_vars

\* ------------------------------------------------------------------------
\* Joined meshes
\* ------------------------------------------------------------------------

\* the call of op has returned
Returned(op) == ret.op = op /\ IsSome(ret.val)

\* the vertices of the meshes before the k-th
RECURSIVE VerticesBefore(_, _)
VerticesBefore(meshes, k) ==
    IF k = 1 THEN 0
    ELSE VerticesBefore(meshes, k - 1) + Len(meshes[k - 1].vertices)

\* the joined indices before those of the k-th mesh: the indices of every
\* earlier mesh and one restart index for each
RECURSIVE IndicesBefore(_, _)
IndicesBefore(meshes, k) ==
    IF k = 1 THEN 0
    ELSE IndicesBefore(meshes, k - 1) + Len(meshes[k - 1].indices) + 1

RECURSIVE ConcatVertices(_, _)
ConcatVertices(meshes, n) ==
    IF n = 0 THEN << >>
    ELSE ConcatVertices(meshes, n - 1) \o meshes[n].vertices

\* the indices of the k-th mesh as they read after the join
Rebased(meshes, k) ==
    [j \in 1 .. Len(meshes[k].indices) |->
        meshes[k].indices[j] + VerticesBefore(meshes, k)]

IsJoinOf(vertices, indices, meshes) ==
    /\ vertices = ConcatVertices(meshes, Len(meshes))
    /\ Len(indices) = IndicesBefore(meshes, Len(meshes) + 1)
    /\ Cardinality({i \in 1 .. Len(indices) : indices[i] = GL_RESTART_INDEX})
         = Len(meshes)
    /\ \A k \in 1 .. Len(meshes) :
         /\ \A j \in 1 .. Len(meshes[k].indices) :
              indices[IndicesBefore(meshes, k) + j] = Rebased(meshes, k)[j]
         /\ indices[IndicesBefore(meshes, k) + Len(meshes[k].indices) + 1]
              = GL_RESTART_INDEX

\* what the tessellator returned for each primitive of a layer
FillMeshes(layer_data, stroke_options) ==
    [k \in 1 .. Len(layer_data) |->
        tesselate(layer_data[k], DEFAULT_GLYPH_TOLERANCE, stroke_options)[1]]

StrokeMeshes(layer_data, stroke_options) ==
    [k \in 1 .. Len(layer_data) |->
        tesselate(layer_data[k], DEFAULT_GLYPH_TOLERANCE, stroke_options)[2].val]

\* C21: join_vertex_buffers, and the join inside tesselate_layer_data, put
\* the vertices of the meshes one after the other in input order; the
\* indices of each mesh follow in order, each raised by the number of
\* vertices of the meshes before it, and exactly one restart index follows
\* each mesh, so the output holds as many indices as the inputs together
\* plus one per mesh.
C21_JoinConcatenatesAndRebases ==
    /\ Returned("join_vertex_buffers") =>
         IsJoinOf(ret.val.val.vertices, ret.val.val.indices, ret.arg.val)
    /\ Returned("tesselate_layer_data") =>
         /\ IsJoinOf(ret.val.val[1][1], ret.val.val[1][2],
                     FillMeshes(ret.arg.val[1], ret.arg.val[2]))
         /\ IsSome(ret.arg.val[2]) =>
              IsJoinOf(ret.val.val[2].val[1], ret.val.val[2].val[2],
                       StrokeMeshes(ret.arg.val[1], ret.arg.val[2]))

\* three meshes were joined and the ones after a non-empty mesh have indices
C21_Witness ==
    /\ Returned("join_vertex_buffers")
    /\ Len(ret.arg.val) = 3
    /\ Len(ret.arg.val[1].vertices) > 0
    /\ Len(ret.arg.val[2].indices) > 0
    /\ Len(ret.arg.val[3].indices) > 0

\* a reader of the joined indices: a restart index closes the current run;
\* indices after the last restart index form a run of their own
SplitStep(split, index) ==
    IF index = GL_RESTART_INDEX
    THEN [runs |-> Append(split.runs, split.current), current |-> << >>]
    ELSE [runs |-> split.runs, current |-> Append(split.current, index)]

RECURSIVE SplitRuns(_, _)
SplitRuns(indices, n) ==
    IF n = 0 THEN [runs |-> << >>, current |-> << >>]
    ELSE SplitStep(SplitRuns(indices, n - 1), indices[n])

RunsOf(split) ==
    IF split.current = << >> THEN split.runs
    ELSE Append(split.runs, split.current)

IndexRuns(indices) == RunsOf(SplitRuns(indices, Len(indices)))

\* C22: splitting the joined index list at the restart index gives back one
\* run per input mesh, the i-th run being the rebased indices of the i-th
\* mesh.
C22_SplitRecoversRebasedRuns ==
    Returned("join_vertex_buffers") =>
        IndexRuns(ret.val.val.indices)
          = [k \in 1 .. Len(ret.arg.val) |-> Rebased(ret.arg.val, k)]

\* [A, B] with both meshes non-empty were joined and split again
C22_Witness ==
    /\ Returned("join_vertex_buffers")
    /\ Len(ret.arg.val) = 2
    /\ Len(ret.arg.val[1].indices) > 0
    /\ Len(ret.arg.val[2].indices) > 0
    /\ Len(IndexRuns(ret.val.val.indices)) = 2

\* ------------------------------------------------------------------------
\* quick_circles and quick_lines
\* ------------------------------------------------------------------------

RestartIndices(indices) ==
    {i \in 1 .. Len(indices) : indices[i] = GL_RESTART_INDEX}

\* C23: quick_circles returns, without failing, a Direct layer that has a
\* fill mesh and no stroke mesh; for an empty list the fill mesh has no
\* vertex and no index, and for n circles its index list holds exactly n
\* restart indices.
C23_QuickCirclesOneRestartPerCircle ==
    Returned("quick_circles") =>
        /\ ~panicked
        /\ ret.val.val.kind = "Direct"
        /\ ret.val.val.stroke = None
        /\ IsSome(ret.val.val.fill)
        /\ Cardinality(RestartIndices(ret.val.val.fill.val.indices))
             = Len(ret.arg.val[1])
        /\ Len(ret.arg.val[1]) = 0 =>
             /\ ret.val.val.fill.val.vertices = << >>
             /\ ret.val.val.fill.val.indices = << >>

\* quick_circles was called with an empty list
C23_Witness ==
    /\ Returned("quick_circles")
    /\ ret.arg.val[1] = << >>
    /\ IsSome(ret.val.val.fill)

\* quick_circles was called with as many circles as one call may hold
C23_WitnessMany ==
    /\ Returned("quick_circles")
    /\ Len(ret.arg.val[1]) = MaxMeshes
    /\ Cardinality(RestartIndices(ret.val.val.fill.val.indices)) = MaxMeshes

\* C24: quick_lines renders every input line of two points or more and
\* ignores only the shorter ones: the stroke mesh holds one restart-closed
\* run for each input line of at least two points.
C24_QuickLinesRendersEveryLine ==
    Returned("quick_lines") =>
        /\ IsSome(ret.val.val.stroke)
        /\ Len(IndexRuns(ret.val.val.stroke.val.indices))
             = Cardinality({i \in 1 .. Len(ret.arg.val[1]) :
                              Len(ret.arg.val[1][i]) >= 2})

\* ------------------------------------------------------------------------
\* Stroke options
\* ------------------------------------------------------------------------

\* v * 1000 rounded to the nearest integer, for v in ten-thousandths
RoundToThousandths(v) == (v + 5) \div 10

\* C25: a stroke scalar v is stored as v * 1000 rounded to the nearest
\* integer; a line width of 1.0 is stored as 1000, and a stored 1000 is
\* handed to the tessellator as 1.0.
C25_StrokeScalarsStoredRounded ==
    /\ Returned("convert_stroke") =>
         ret.val.val[2].line_width = RoundToThousandths(ret.arg.val.width)
    /\ (Returned("convert_stroke") /\ ret.arg.val.width = DEFAULT_LINE_WIDTH) =>
         ret.val.val[2].line_width = 1000
    /\ (Returned("into") /\ ret.arg.val.line_width = 1000) =>
         ret.val.val.line_width = DEFAULT_LINE_WIDTH

\* ------------------------------------------------------------------------
\* Vectorized fonts
\* ------------------------------------------------------------------------

GlyphLookups == {"get_fill_vertices", "get_stroke_vertices"}

\* the glyph map a lookup reads
LookedUpMap(vectorized_font, op) ==
    IF op = "get_fill_vertices" THEN vectorized_font.glyph_polygon_map
    ELSE vectorized_font.glyph_stroke_map

\* every entry of m1 is in m2 with the same mesh
Preserved(m1, m2) ==
    \A g \in Keys(m1) : g \in Keys(m2) /\ m2[g] = m1[g]

\* the last call was a glyph lookup that found the glyph in its map
LookupHit ==
    /\ ret.op \in GlyphLookups
    /\ ret.arg.val.id
         \in Keys(LookedUpMap(ret.arg.val.self[ret.arg.val.font_id], ret.op))

\* the last call was a glyph lookup that missed its map and returned a mesh
FirstSuccessfulLookup ==
    /\ ret.op \in GlyphLookups
    /\ ret.arg.val.id
         \notin Keys(LookedUpMap(ret.arg.val.self[ret.arg.val.font_id], ret.op))
    /\ IsSome(ret.val.val)

\* C26: insert_if_not_exist is idempotent and the first writer wins: for a
\* font id that is present the cache stays as it was and no glyph goes to
\* the tessellator; for an absent id the entry is what from_font builds; a
\* second call for the same id, with whatever font, changes nothing.
C26_InsertIfNotExistFirstWriterWins ==
    ret.op = "insert_if_not_exist" =>
        /\ ret.arg.val.id \in Keys(ret.arg.val.self) =>
             /\ vectorized_fonts = ret.arg.val.self
             /\ tesselated = 0
        /\ ret.arg.val.id \notin Keys(ret.arg.val.self) =>
             /\ Keys(vectorized_fonts) = Keys(ret.arg.val.self) \cup {ret.arg.val.id}
             /\ vectorized_fonts[ret.arg.val.id] = from_font(ret.arg.val.font)
             /\ Preserved(ret.arg.val.self, vectorized_fonts)
        /\ \A font \in FontInputs :
             insert_if_not_exist(vectorized_fonts, ret.arg.val.id, font)
               = Cached(vectorized_fonts, 0)

\* insert_if_not_exist was called for a present id whose entry is not what
\* the font handed in would build
C26_Witness ==
    /\ ret.op = "insert_if_not_exist"
    /\ ret.arg.val.id \in Keys(ret.arg.val.self)
    /\ ret.arg.val.self[ret.arg.val.id] # from_font(ret.arg.val.font)

\* C27: in every reachable state the two glyph maps of a vectorized font
\* have the same keys, and the first successful lookup of a glyph through
\* either function leaves the glyph in both maps.
C27_GlyphMapsShareKeys ==
    /\ \A f \in Keys(vectorized_fonts) :
         Keys(vectorized_fonts[f].glyph_polygon_map)
           = Keys(vectorized_fonts[f].glyph_stroke_map)
    /\ FirstSuccessfulLookup =>
         /\ ret.arg.val.id
              \in Keys(vectorized_fonts[ret.arg.val.font_id].glyph_polygon_map)
         /\ ret.arg.val.id
              \in Keys(vectorized_fonts[ret.arg.val.font_id].glyph_stroke_map)

\* get_fill_vertices tessellated a glyph that from_font does not preload
C27_Witness ==
    /\ FirstSuccessfulLookup
    /\ ret.op = "get_fill_vertices"
    /\ ret.arg.val.id >= PreloadedGlyphs
    /\ tesselated = 1

\* C28: glyph lookups only add to the glyph maps and memoize: a lookup
\* keeps every entry of both maps with its mesh and leaves the other fonts
\* alone; once the glyph is in the map, the lookup returns the stored mesh,
\* hands nothing to the tessellator and changes nothing.
C28_GlyphMapsAppendOnlyAndMemoizing ==
    ret.op \in GlyphLookups =>
        /\ Keys(vectorized_fonts) = Keys(ret.arg.val.self)
        /\ \A f \in Keys(vectorized_fonts) \ {ret.arg.val.font_id} :
             vectorized_fonts[f] = ret.arg.val.self[f]
        /\ Preserved(ret.arg.val.self[ret.arg.val.font_id].glyph_polygon_map,
                     vectorized_fonts[ret.arg.val.font_id].glyph_polygon_map)
        /\ Preserved(ret.arg.val.self[ret.arg.val.font_id].glyph_stroke_map,
                     vectorized_fonts[ret.arg.val.font_id].glyph_stroke_map)
        /\ LookupHit =>
             /\ ret.val.val
                  = Some(LookedUpMap(ret.arg.val.self[ret.arg.val.font_id],
                                     ret.op)[ret.arg.val.id])
             /\ tesselated = 0
             /\ vectorized_fonts = ret.arg.val.self

\* get_stroke_vertices found a glyph whose stored mesh is not the one the
\* font handed in would give
C28_Witness ==
    /\ LookupHit
    /\ ret.op = "get_stroke_vertices"
    /\ IsSome(glyph_to_svg_layer_type(ret.arg.val.original_font, ret.arg.val.id))
    /\ ret.val.val.val
         # TesselateGlyph(glyph_to_svg_layer_type(ret.arg.val.original_font,
                                                  ret.arg.val.id).val)[2].val

\* ------------------------------------------------------------------------
\* Sampled curves
\* ------------------------------------------------------------------------

\* the length of the chords between the samples 0 .. i
RECURSIVE ChordSum(_, _)
ChordSum(points, i) ==
    IF i = 0 THEN 0
    ELSE ChordSum(points, i - 1) + distance(points[i - 1], points[i])

\* C29: from_curve gives BEZIER_SAMPLE_RATE + 1 = 11 samples, the first
\* being control point 0 and the last control point 3; the arc-length table
\* never decreases, starts at 0, ends at index 10 with the total arc_length,
\* and each entry is the sum of the chord lengths up to its index.
C29_SampledCurveTable ==
    Returned("from_curve") =>
        /\ DOMAIN ret.val.val.sampled_bezier_points = 0 .. BEZIER_SAMPLE_RATE
        /\ Cardinality(DOMAIN ret.val.val.sampled_bezier_points) = 11
        /\ ret.val.val.sampled_bezier_points[0] = ret.arg.val[0]
        /\ ret.val.val.sampled_bezier_points[BEZIER_SAMPLE_RATE] = ret.arg.val[3]
        /\ DOMAIN ret.val.val.arc_length_parametrization = 0 .. BEZIER_SAMPLE_RATE
        /\ ret.val.val.arc_length_parametrization[0] = 0
        /\ \A i \in 0 .. (BEZIER_SAMPLE_RATE - 1) :
             ret.val.val.arc_length_parametrization[i]
               <= ret.val.val.arc_length_parametrization[i + 1]
        /\ ret.val.val.arc_length_parametrization[BEZIER_SAMPLE_RATE]
             = ret.val.val.arc_length
        /\ \A i \in 0 .. BEZIER_SAMPLE_RATE :
             ret.val.val.arc_length_parametrization[i]
               = ChordSum(ret.val.val.sampled_bezier_points, i)

\* a curve whose ends differ was sampled, and its table rises from the
\* first chord on
C29_Witness ==
    /\ Returned("from_curve")
    /\ ret.arg.val[0] # ret.arg.val[3]
    /\ ret.val.val.arc_length_parametrization[1] > 0
    /\ ret.val.val.arc_length_parametrization[1] < ret.val.val.arc_length

\* the largest index whose cumulative length is at most offset
LargestAtMost(arc_length_parametrization, offset) ==
    CHOOSE lo \in 0 .. BEZIER_SAMPLE_RATE :
        /\ arc_length_parametrization[lo] <= offset
        /\ \A i \in (lo + 1) .. BEZIER_SAMPLE_RATE :
             arc_length_parametrization[i] > offset

\* the percentage interpolated between sample lo and the next one
BetweenNeighbours(self, offset, lo) ==
    InterpolatePercent(lo, lo + 1,
                       self.arc_length_parametrization[lo],
                       self.arc_length_parametrization[lo + 1],
                       offset)

\* C30: for an offset in [0, arc_length) get_bezier_percentage_from_offset
\* interpolates between the sample lo, the largest index whose cumulative
\* length is at most the offset, and the next sample, whose length is above
\* it; when the offset is exactly the length at sample k the result is k/10.
C30_PercentageBetweenNeighbours ==
    ( /\ Returned("get_bezier_percentage_from_offset")
      /\ 0 <= ret.arg.val.offset
      /\ ret.arg.val.offset < ret.arg.val.self.arc_length ) =>
        /\ ret.val.val
             = BetweenNeighbours(
                  ret.arg.val.self, ret.arg.val.offset,
                  LargestAtMost(ret.arg.val.self.arc_length_parametrization,
                                ret.arg.val.offset))
        /\ \A k \in 0 .. BEZIER_SAMPLE_RATE :
             k = LargestAtMost(ret.arg.val.self.arc_length_parametrization,
                               ret.arg.val.offset)
             /\ ret.arg.val.self.arc_length_parametrization[k] = ret.arg.val.offset
             => ret.val.val = Ratio(k, BEZIER_SAMPLE_RATE)

\* C31: for a curve of non-zero length get_bezier_percentage_from_offset
\* returns 0.0 for the offset 0.0 and 1.0 for the offset arc_length, also
\* when the first or the last sampled segment has zero length.
C31_EndsMapToZeroAndOne ==
    ( /\ Returned("get_bezier_percentage_from_offset")
      /\ ret.arg.val.self.arc_length > 0 ) =>
        /\ ret.arg.val.offset = 0 => ret.val.val = [num |-> 0, den |-> 1]
        /\ ret.arg.val.offset = ret.arg.val.self.arc_length
             => ret.val.val = [num |-> 1, den |-> 1]

\* the whole length of a curve whose last sampled segment has zero length
\* was asked for
C31_Witness ==
    /\ Returned("get_bezier_percentage_from_offset")
    /\ ret.arg.val.self.arc_length > 0
    /\ ret.arg.val.offset = ret.arg.val.self.arc_length
    /\ ret.arg.val.self.arc_length_parametrization[BEZIER_SAMPLE_RATE - 1]
         = ret.arg.val.self.arc_length
    /\ ret.val.val = [num |-> 1, den |-> 1]

\* the offset 0.0 of a curve whose first sampled segment has zero length
\* was asked for
C31_WitnessStart ==
    /\ Returned("get_bezier_percentage_from_offset")
    /\ ret.arg.val.self.arc_length > 0
    /\ ret.arg.val.offset = 0
    /\ ret.arg.val.self.arc_length_parametrization[1] = 0
    /\ ret.val.val = [num |-> 0, den |-> 1]

\* C32: for an offset above the cumulative length of the last sample
\* get_bezier_percentage_from_offset returns a value, extrapolated over the
\* bracket of the samples 9 and 10:
\* 0.9 + 0.1 * (offset - table[9]) / (table[10] - table[9]).
C32_ExtrapolatesPastTheEnd ==
    ( /\ Returned("get_bezier_percentage_from_offset")
      /\ ret.arg.val.offset > ret.arg.val.self.arc_length_parametrization[10] ) =>
             ret.val.val
               = Ratio(9 * (ret.arg.val.self.arc_length_parametrization[10]
                              - ret.arg.val.self.arc_length_parametrization[9])
                         + (ret.arg.val.offset
                              - ret.arg.val.self.arc_length_parametrization[9]),
                       10 * (ret.arg.val.self.arc_length_parametrization[10]
                               - ret.arg.val.self.arc_length_parametrization[9]))

\* an offset past the end of a curve whose last segment has a length was
\* asked for, and the percentage returned is above 1.0
C32_Witness ==
    /\ Returned("get_bezier_percentage_from_offset")
    /\ ret.arg.val.offset > ret.arg.val.self.arc_length
    /\ ret.arg.val.self.arc_length_parametrization[9]
         < ret.arg.val.self.arc_length_parametrization[10]
    /\ ret.val.val.den > 0
    /\ ret.val.val.num > ret.val.val.den

\* ------------------------------------------------------------------------
\* References into the GPU buffer map
\* ------------------------------------------------------------------------

\* C33: a reference get_vertices_and_indices(a) returned stays valid and
\* keeps denoting a's buffer pair for as long as it is held (a is removed
\* only by delete_layer or clear_all_layers); later get_vertices_and_indices
\* calls that materialize other ids do not invalidate it.
C33_BorrowedReferenceStaysValid ==
    IsSome(borrowed) =>
        /\ ~borrowed.val.dangling
        /\ MapGet(svg_cache.vertex_index_buffer_cache, borrowed.val.id)
             = Some(borrowed.val.pair)
        /\ ret.op = "deref" => ret.val.val = borrowed.val.pair

\* ------------------------------------------------------------------------
\* Failures while materializing and tessellating
\* ------------------------------------------------------------------------

\* the GPU map and the CPU map the accessor named in `ret` works on
RetGpuMap == GpuMapOf(svg_cache, ret.op)

RetCpuMap == CpuMapOf(svg_cache, ret.op)

\* C34: a GPU buffer allocation that fails while an id is materialized is
\* fatal (the accessor panics; it does not return not-found and the draw is
\* not dropped quietly), and it leaves no partial state: no entry for the id
\* is in the GPU buffer map after the failure.
C34_AllocationFailureIsFatal ==
    ret.op \in {"fill", "stroke"} =>
        /\ ( /\ ret.arg.val \in Keys(RetCpuMap)
             /\ ret.arg.val \notin Keys(RetGpuMap) ) => panicked
        /\ panicked =>
             /\ ret.arg.val \notin Keys(RetGpuMap)
             /\ ret.val = None
             /\ ~ret.allocated
        /\ ~panicked => (IsSome(ret.val) <=> ret.arg.val \in Keys(RetGpuMap))

\* the allocation for one layer failed after another layer was materialized
C34_Witness ==
    /\ ret.op = "fill"
    /\ panicked
    /\ ret.arg.val \in Keys(svg_cache.gpu_ready_to_upload_cache)
    /\ ret.arg.val \notin Keys(svg_cache.vertex_index_buffer_cache)
    /\ Keys(svg_cache.vertex_index_buffer_cache) # {}

\* the cache maps that hold an entry for id
MapsHolding(id) ==
    { m \in {"layers", "gpu_ready_to_upload_cache",
             "stroke_gpu_ready_to_upload_cache", "vertex_index_buffer_cache",
             "stroke_vertex_index_buffer_cache"} : id \in Keys(svg_cache[m]) }

\* C35: when the fill tessellator fails on malformed path data, add_layer
\* hands its caller a typed fill error, the process goes on (no panic), and
\* the failed add_layer has inserted nothing into any cache map.
C35_FillErrorIsReturned ==
    ( /\ ret.op = "add_layer"
      /\ TesselateLayerDataPanics(ret.arg.val.data) ) =>
        /\ ~panicked
        /\ ret.val = Some(Err("FillError"))
        /\ MapsHolding(SVG_LAYER_ID - 1) = {}

\* ------------------------------------------------------------------------
\* The order of the draw calls of one render pass
\* ------------------------------------------------------------------------

\* the style Svg::dom uses for layer i of the scene of the last pass
SceneStyle(i) ==
    IF ret.arg.val.scene[i].kind = "Reference"
    THEN Layers[ret.arg.val.scene[i].id].style
    ELSE ret.arg.val.scene[i].style

\* draw d comes before draw e in scene order
InSceneOrder(d, e) ==
    \/ d.layer < e.layer
    \/ d.layer = e.layer /\ d.kind = "fill" /\ e.kind = "stroke"

\* C36: one render pass issues its draw calls in scene order: layers in the
\* order of the scene's layer list, within a layer the fill draw (only if
\* the style has a fill) before the stroke draw (only if the style has a
\* stroke), and no draw of a later layer before a draw of an earlier one.
C36_DrawsInSceneOrder ==
    ret.op = "dom" =>
        /\ \A d, e \in 1 .. Len(ret.val.val) :
             d < e => InSceneOrder(ret.val.val[d], ret.val.val[e])
        /\ \A d \in 1 .. Len(ret.val.val) :
             /\ ret.val.val[d].layer \in 1 .. Len(ret.arg.val.scene)
             /\ ret.val.val[d].kind = "fill"
                  => IsSome(SceneStyle(ret.val.val[d].layer).fill)
             /\ ret.val.val[d].kind = "stroke"
                  => IsSome(SceneStyle(ret.val.val[d].layer).stroke)

\* a pass drew the fill and the stroke of its first layer and then its
\* second layer
C36_Witness ==
    /\ ret.op = "dom"
    /\ ~panicked
    /\ Len(ret.val.val) = 3
    /\ ret.val.val[1].layer = 1 /\ ret.val.val[1].kind = "fill"
    /\ ret.val.val[2].layer = 1 /\ ret.val.val[2].kind = "stroke"
    /\ ret.val.val[3].layer = 2

\* ------------------------------------------------------------------------
\* Vertex normals
\* ------------------------------------------------------------------------

\* the normals the fill tessellator emitted for the first n primitives, in
\* the order of the joined vertex buffer
RECURSIVE FillNormals(_, _)
FillNormals(layer_data, n) ==
    IF n = 0 THEN << >>
    ELSE FillNormals(layer_data, n - 1)
         \o [k \in 1 .. Len(LyonFillVertices(layer_data[n])) |->
                LyonFillVertices(layer_data[n])[k].normal]

\* the same for the stroke tessellator
RECURSIVE StrokeNormals(_, _, _)
StrokeNormals(layer_data, stroke_options, n) ==
    IF n = 0 THEN << >>
    ELSE StrokeNormals(layer_data, stroke_options, n - 1)
         \o [k \in 1 .. Len(LyonStrokeVertices(layer_data[n], stroke_options)) |->
                LyonStrokeVertices(layer_data[n], stroke_options)[k].normal]

\* the vertices of a mesh carry these normals, one for one
CarriesNormals(vertices, normals) ==
    /\ Len(vertices) = Len(normals)
    /\ \A i \in 1 .. Len(vertices) : vertices[i].normal = normals[i]

\* C37: every vertex of a produced fill or stroke mesh carries the normal
\* the tessellator gave it, in both components: SvgVert.normal equals
\* (normal.x, normal.y) of the tessellator vertex, for polygons, circles and
\* rounded rectangles.
C37_VerticesCarryTessellatorNormals ==
    Returned("tesselate_layer_data") =>
        /\ CarriesNormals(ret.val.val[1][1],
                          FillNormals(ret.arg.val[1], Len(ret.arg.val[1])))
        /\ IsSome(ret.val.val[2]) =>
             CarriesNormals(ret.val.val[2].val[1],
                            StrokeNormals(ret.arg.val[1], ret.arg.val[2].val,
                                          Len(ret.arg.val[1])))

\* ------------------------------------------------------------------------
\* GPU buffers against the CPU meshes they were made from
\* ------------------------------------------------------------------------

\* the buffer pair holds what the mesh holds
Materializes(bufs, mesh) ==
    /\ bufs[1].data = mesh[1]
    /\ bufs[2].data = mesh[2]

\* C38: in every reachable state, each id present in a GPU buffer map has a
\* CPU mesh in the corresponding CPU mesh map, and the contents of its
\* buffers equal that mesh: a GPU buffer is never stale.
C38_GpuBuffersMatchCpuMeshes ==
    /\ \A id \in Keys(GpuFill) :
         /\ id \in Keys(CpuFill)
         /\ Materializes(GpuFill[id], CpuFill[id])
    /\ \A id \in Keys(GpuStroke) :
         /\ id \in Keys(CpuStroke)
         /\ Materializes(GpuStroke[id], CpuStroke[id])

\* fill and stroke buffers of a layer are materialized next to a later
\* layer that is not
C38_Witness ==
    \E id \in Keys(GpuFill) \cap Keys(GpuStroke) :
        /\ Materializes(GpuFill[id], CpuFill[id])
        /\ Materializes(GpuStroke[id], CpuStroke[id])
        /\ \E later \in Keys(Layers) : later > id /\ later \notin Keys(GpuFill)

\* ------------------------------------------------------------------------
\* The transform table and the view-box table
\* ------------------------------------------------------------------------

\* every entry of the table `before` is an entry of `after`
OnlyGrows(before, after) == Keys(before) \subseteq Keys(after)

\* C39: delete_layer and clear_all_layers leave the transform table and the
\* view-box table as they are, and no cache operation removes an entry from
\* either: both only grow, by one view box per add_svg call and by one
\* transform per decoded path, also after their layers are gone.
C39_TablesOnlyGrow ==
    [][ /\ OnlyGrows(svg_cache.transforms, svg_cache'.transforms)
        /\ OnlyGrows(svg_cache.view_boxes, svg_cache'.view_boxes)
        /\ ret'.op \in {"delete_layer", "clear_all_layers"} =>
             /\ svg_cache'.transforms = svg_cache.transforms
             /\ svg_cache'.view_boxes = svg_cache.view_boxes
        /\ (ret'.op = "add_svg" /\ ~panicked') =>
             /\ Keys(svg_cache'.view_boxes)
                  = Keys(svg_cache.view_boxes) \cup {SVG_VIEW_BOX_ID}
             /\ SVG_VIEW_BOX_ID \notin Keys(svg_cache.view_boxes)
             /\ SVG_TRANSFORM_ID' = SVG_TRANSFORM_ID + Len(ret'.arg.val.paths)
             /\ Keys(svg_cache'.transforms)
                  = Keys(svg_cache.transforms)
                    \cup (SVG_TRANSFORM_ID .. (SVG_TRANSFORM_ID' - 1))
      ]_vars

\* the scene was reset after a document was loaded: no layer is left, and
\* the transforms and the view box of the document are still in the tables
C39_Witness ==
    /\ ret.op = "clear_all_layers"
    /\ removed # {}
    /\ Keys(svg_cache.layers) = {}
    /\ Keys(svg_cache.transforms) # {}
    /\ Keys(svg_cache.view_boxes) # {}

\* ------------------------------------------------------------------------
\* SvgCallbacks
\* ------------------------------------------------------------------------

\* C40: comparing two SvgCallbacks for equality and hashing an SvgCallbacks
\* come to a result for every variant (None, Any, Some): the call neither
\* calls itself again on the values it was given nor runs out of stack.
C40_EqAndHashTerminate ==
    ret.op \in {"eq", "hash"} =>
        /\ ~panicked
        /\ ret.arg.val.frames = 0

====
